---- MODULE Spec2Model ----
(***************************************************************************)
(* Profile registration engine of project-tracs (image_processing.py).     *)
(*                                                                         *)
(* Part I  : the alignment orchestrator inside analyze_dent                *)
(*           (mode selection, RANSAC acceptance, ICP, piecewise fallback). *)
(* Part II : ransac_global_fit (fixed correspondence table, sampling loop, *)
(*           best-model tracking).                                         *)
(* Part III: icp_rigid (correspondences, outlier rejection, accumulation,  *)
(*           convergence).                                                 *)
(* Part IV : the two estimators on clouds related by a similarity.         *)
(* Part V  : ransac_global_fit on a cloud with gross outliers.             *)
(* Part VI : the piecewise fallback on concrete curves (anchors, moments,  *)
(*           interpolated warp).                                           *)
(* Part VII: the deviation metrics (resampling, statistics).               *)
(* Part VIII: the web front ends server.py and server/app.py, two          *)
(*           requests side by side on one file system.                     *)
(*                                                                         *)
(* Distances are floats in the program.  Here a residual is a fixed-point  *)
(* number counted in 1/ErrScale pixels; float('inf') is Infinity.          *)
(***************************************************************************)
EXTENDS Integers, Sequences, FiniteSets, TLC

\* ------------------------------------------------------------------------
\* Bounds of the model
\* ------------------------------------------------------------------------
\* residual resolution: one pixel is ErrScale units
ErrScale == 4
\* longest contour the orchestrator is run on
MaxContour == 4
\* largest inlier count a RANSAC result reports to the orchestrator
MaxInlierCount == 31
\* largest number of first-iteration ICP correspondences reported
MaxCorr == 3
\* longest curve the piecewise fallback is run on
MaxCurveLen == 44

\* ------------------------------------------------------------------------
\* Program constants
\* ------------------------------------------------------------------------
\* float('inf')
Infinity == 1000000000
\* analyze_dent: ransac_global_fit(..., min_inliers=30)
RansacMinInliers == 30
\* analyze_dent: inliers.sum() >= 20
AcceptMinInliers == 20
\* analyze_dent: err_ransac < max(20.0, float(inlier_px))
AcceptErrFloor == 20
\* icp_rigid: if inlier_mask.sum() < 2: break
IcpMinCorr == 2
\* segment_profile: max(10, int(len(contour) * 0.25))
MinAnchor == 10
\* segment_profile: len(contour) * 0.25, as a division by 4
AnchorDivisor == 4
\* segment_profile: len(contour) // 3
ShrinkDivisor == 3

Max(a, b) == IF a >= b THEN a ELSE b

\* ------------------------------------------------------------------------
\* Part I : analyze_dent, alignment orchestration
\* ------------------------------------------------------------------------
VARIABLES
    pc,                      \* position inside analyze_dent
    align_mode,              \* caller-supplied mode string
    inlier_px,               \* caller-supplied inlier threshold (pixels)
    contour_p,               \* reference contour: [found, n]
    contour_d,               \* sample contour:    [found, n]
    n_inliers,               \* inliers.sum() of the RANSAC result
    err_ransac,              \* err_ransac of the RANSAC result (fixed point)
    ransac_used,             \* the local flag ransac_used
    T_icp,                   \* what icp_rigid returned as transform
    final_warped_contour_d,  \* what the final sample curve was produced by
    trace,                   \* stages attempted, in order
    raised,                  \* where an exception was raised ("none" if none)
    result                   \* what analyze_dent returned

ovars == <<pc, align_mode, inlier_px, contour_p, contour_d, n_inliers, err_ransac,
           ransac_used, T_icp, final_warped_contour_d, trace, raised, result>>

\* state of ransac_global_fit (Part II)
VARIABLES
    src,               \* src_pts as an ordered cloud
    dst,               \* dst_pts as an ordered cloud
    n_iter,            \* n_iter
    inlier_threshold,  \* inlier_threshold
    allow_scale,       \* allow_scale
    min_inliers,       \* min_inliers
    rpc,               \* per invocation: position inside ransac_global_fit
    corr_dst,          \* per invocation: corr_dst = dst[nn0]
    iter,              \* per invocation: loop iterations completed
    best_T,            \* per invocation: best_T
    best_err,          \* per invocation: best_err
    best_inliers,      \* per invocation: best_inliers (boolean mask)
    seen,              \* per invocation: candidates that reached min_inliers so far
    ret                \* per invocation: the returned triple

rvars == <<src, dst, n_iter, inlier_threshold, allow_scale, min_inliers,
           rpc, corr_dst, iter, best_T, best_err, best_inliers, seen, ret>>

\* state of icp_rigid (Part III)
VARIABLES
    icp_src,            \* src as an ordered cloud
    icp_dst,            \* dst as an ordered cloud
    max_iter,           \* max_iter
    tol,                \* tol (fixed point)
    outlier_threshold,  \* outlier_threshold (pixels)
    icp_allow_scale,    \* allow_scale
    ipc,                \* position inside icp_rigid
    icp_i,              \* loop passes started so far
    current_src,        \* current_src: [pts, den], the points are pts / den
    total_T,            \* total_T
    prev_error,         \* prev_error (fixed point)
    icp_log,            \* what each loop pass did, in order
    icp_ret             \* the returned pair

ivars == <<icp_src, icp_dst, max_iter, tol, outlier_threshold, icp_allow_scale,
           ipc, icp_i, current_src, total_T, prev_error, icp_log, icp_ret>>

\* state of a call of an estimator on exactly related clouds (Part IV)
VARIABLES
    est_src,         \* src
    est_a,           \* scale * R of the similarity that relates the clouds, as a complex number
    est_t,           \* its translation t
    est_similarity,  \* TRUE: _compute_similarity_transform, FALSE: _compute_rigid_transform
    est_dst,         \* dst
    est_T,           \* the transform returned
    est_err,         \* the mean residual returned (fixed point)
    epc              \* position of the call

evars == <<est_src, est_a, est_t, est_similarity, est_dst, est_T, est_err, epc>>

\* the scene of a robustness run of ransac_global_fit (Part V)
VARIABLES
    known_a,    \* scale * R of the known transform, as a complex number
    known_t,    \* its translation
    displaced   \* indices of the points whose dst counterpart was displaced

svars == <<known_a, known_t, displaced>>

\* state of the piecewise fallback on concrete curves (Part VI)
VARIABLES
    curve_p,        \* contour_p as an ordered point sequence (reference)
    curve_d,        \* contour_d as an ordered point sequence (sample)
    top_p,          \* top_p, <<>> for None
    bottom_p,       \* bottom_p, <<>> for None
    top_d,          \* top_d, <<>> for None
    bottom_d,       \* bottom_d, <<>> for None
    delta_top,      \* (dx_top, dy_top) as an exact fraction
    delta_bottom,   \* (dx_bottom, dy_bottom) as an exact fraction
    warped_points,  \* the int32 array built from warped_points, "unset" before
    wpc             \* position inside the fallback

wvars == <<curve_p, curve_d, top_p, bottom_p, top_d, bottom_d,
           delta_top, delta_bottom, warped_points, wpc>>

\* state of the deviation metrics block (Part VII)
VARIABLES
    poly_p,    \* (xp, yp) as an ordered point sequence
    poly_d,    \* (xd, yd) as an ordered point sequence
    res_p,     \* (xr_p, yr_p, len_p)
    res_d,     \* (xr_d, yr_d, len_d)
    metrics,   \* metrics: NoMetrics for None, or the record of the rounded statistics
    mpc        \* position inside the block

mvars == <<poly_p, poly_d, res_p, res_d, metrics, mpc>>

\* state of the two web front ends and of the files they share (Part VIII)
VARIABLES
    handler,       \* which front end serves: "server" (server.py) or "app" (server/app.py)
    clock,         \* int(time.time())
    fs,            \* the files on disk: path -> content
    hpc,           \* position of each request inside its handler
    stamp,         \* timestamp (server.py) or uid (server/app.py) of each request
    dented_path,   \* dented_path of each request
    perfect_path,  \* perfect_path of each request
    out_path,      \* out_path / output_path of each request
    img_read,      \* what cv2.imread returned to each request's analyze_dent
    returned,      \* what analyze_dent handed back to each request
    response,      \* the answer of each request
    shown          \* the image the client of each request is shown

hvars == <<handler, clock, fs, hpc, stamp, dented_path, perfect_path, out_path,
           img_read, returned, response, shown>>

\* the state outside analyze_dent and ransac_global_fit
xvars == <<ivars, evars, svars, wvars, mvars, hvars>>

\* values a caller passes as align_mode ("other" stands for any other string)
AlignModes == {"ransac", "auto", "icp", "piecewise", "other"}
\* values a caller passes as inlier_px
InlierPxValues == {10, 20, 25}

\* clean_skeleton: None when no contour was found, else the longest contour
Contours == {[found |-> FALSE, n |-> 0]} \cup {[found |-> TRUE, n |-> k] : k \in 1..MaxContour}

\* mutant: the anchor is shrunk only when it is longer than the contour
segment_profileNoDouble(contour) ==
    IF ~contour.found THEN 0
    ELSE LET k0 == Max(MinAnchor, contour.n \div AnchorDivisor)
         IN IF k0 > contour.n THEN contour.n \div ShrinkDivisor ELSE k0

\* mutant: a short contour is cut in halves, not thirds
segment_profileHalves(contour) ==
    IF ~contour.found THEN 0
    ELSE LET k0 == Max(MinAnchor, contour.n \div AnchorDivisor)
         IN IF 2 * k0 > contour.n THEN contour.n \div 2 ELSE k0

\* segment_profile: the anchor length, 0 when (None, None) is returned
segment_profile(contour) ==
    IF ~contour.found THEN 0
    ELSE LET k0 == Max(MinAnchor, contour.n \div AnchorDivisor)
             k  == IF 2 * k0 > contour.n THEN contour.n \div ShrinkDivisor ELSE k0
         IN k

\* mutant: the anchors of one contour are enough
AnchorsAvailableEither(cp, cd) == segment_profile(cp) # 0 \/ segment_profile(cd) # 0

\* all(seg is not None for seg in [top_p, bottom_p, top_d, bottom_d])
AnchorsAvailable(cp, cd) == segment_profile(cp) # 0 /\ segment_profile(cd) # 0

\* The results ransac_global_fit hands to analyze_dent for threshold thr and
\* min_inliers=30: no model (0 inliers, inf), or a model whose inlier count
\* reached min_inliers and whose mean inlier distance is at most thr.
RansacErrSamples(thr) ==
    {e \in {0, AcceptErrFloor * ErrScale - 1, AcceptErrFloor * ErrScale,
            thr * ErrScale - 1, thr * ErrScale} : e >= 0 /\ e <= thr * ErrScale}
\* mutant: ransac_global_fit is called with its default min_inliers=10
RansacOutcomesDefaultMin(thr) ==
    {[n |-> 0, err |-> Infinity]}
    \cup {[n |-> c, err |-> e] : c \in 10..MaxInlierCount, e \in RansacErrSamples(thr)}

RansacOutcomes(thr) ==
    {[n |-> 0, err |-> Infinity]}
    \cup {[n |-> c, err |-> e] : c \in RansacMinInliers..MaxInlierCount, e \in RansacErrSamples(thr)}

\* mutant: the error bound is not strict
RansacAcceptedNonStrict(n, err, px) ==
    n >= AcceptMinInliers /\ err <= Max(AcceptErrFloor, px) * ErrScale

\* analyze_dent line 437: the acceptance test of a RANSAC result
RansacAccepted(n, err, px) ==
    n >= AcceptMinInliers /\ err < Max(AcceptErrFloor, px) * ErrScale

\* mutant: the ICP call is outside the try block
HandlerIcpUnguarded(site) ==
    CASE site \in {"forced", "ransac"} -> "except_inner"
      [] site = "prep" -> "except_outer"
      [] OTHER -> "propagated"

\* mutant: a RANSAC failure is handled by going on to ICP
HandlerChain(site) ==
    CASE site = "ransac" -> "icp"
      [] site \in {"forced", "icp"} -> "except_inner"
      [] site = "prep" -> "except_outer"
      [] OTHER -> "propagated"

\* Where control goes when an exception is raised at a site of analyze_dent:
\* the inner try (428-457) is handled at 458, the outer try (411-427) at 511.
Handler(site) ==
    CASE site \in {"forced", "ransac", "icp"} -> "except_inner"
      [] site = "prep" -> "except_outer"
      [] OTHER -> "propagated"

OInit ==
    /\ pc = "start"
    /\ align_mode \in AlignModes
    /\ inlier_px \in InlierPxValues
    /\ contour_p = [found |-> FALSE, n |-> 0]
    /\ contour_d = [found |-> FALSE, n |-> 0]
    /\ n_inliers = 0
    /\ err_ransac = Infinity
    /\ ransac_used = FALSE
    /\ T_icp = "none"
    /\ final_warped_contour_d = "unset"
    /\ trace = <<>>
    /\ raised = "none"
    /\ result = "running"

\* lines 383-391: cv2.imread of both images; return (None) when one fails
LoadImages ==
    /\ UNCHANGED <<rvars, xvars>>
    /\ pc = "start"
    /\ \E loaded \in BOOLEAN :
         IF loaded THEN pc' = "extract" /\ result' = result
                   ELSE pc' = "done" /\ result' = "None"
    /\ UNCHANGED <<align_mode, inlier_px, contour_p, contour_d, n_inliers, err_ransac,
                   ransac_used, T_icp, final_warped_contour_d, trace, raised>>

\* mutant: one contour is enough to start the alignment
AlignmentWantedEither(cp, cd) == cp.found \/ cd.found

\* line 408: if contour_p is not None and contour_d is not None
AlignmentWanted(cp, cd) == cp.found /\ cd.found

\* lines 393-409: masks, skeletons, clean_skeleton; final_warped_contour_d = contour_d
ExtractContours ==
    /\ UNCHANGED <<rvars, xvars>>
    /\ pc = "extract"
    /\ \E cp \in Contours, cd \in Contours :
         /\ contour_p' = cp
         /\ contour_d' = cd
         /\ pc' = IF AlignmentWanted(cp, cd) THEN "prep" ELSE "visualize"
    /\ final_warped_contour_d' = "original"
    /\ UNCHANGED <<align_mode, inlier_px, n_inliers, err_ransac, ransac_used, T_icp,
                   trace, raised, result>>

\* lines 411-425: reshape and subsample inside the outer try; a failure here
\* (any Exception) is handled by the outer handler
Prepare ==
    /\ UNCHANGED <<rvars, xvars>>
    /\ pc = "prep"
    /\ \E fails \in BOOLEAN :
         IF fails THEN pc' = Handler("prep") /\ raised' = "prep"
                  ELSE pc' = "select" /\ raised' = raised
    /\ UNCHANGED <<align_mode, inlier_px, contour_p, contour_d, n_inliers, err_ransac,
                   ransac_used, T_icp, final_warped_contour_d, trace, result>>

\* mutant: 'icp' also starts with RANSAC
FirstStageRansacUnlessPiecewise(mode) ==
    IF mode = "piecewise" THEN "forced" ELSE "ransac"

\* lines 429-433: what the mode selects first; "forced" is the RuntimeError
\* raised for 'piecewise'
FirstStage(mode) ==
    IF mode = "piecewise" THEN "forced"
    ELSE IF mode \in {"ransac", "auto"} THEN "ransac"
    ELSE "icp"

\* lines 428-433, 446-447: the mode selector
SelectMode ==
    /\ UNCHANGED <<rvars, xvars>>
    /\ pc = "select"
    /\ IF FirstStage(align_mode) = "forced"
         THEN pc' = Handler("forced") /\ raised' = "forced" /\ ransac_used' = ransac_used
         ELSE IF FirstStage(align_mode) = "ransac"
                THEN pc' = "ransac" /\ raised' = raised /\ ransac_used' = ransac_used
                ELSE pc' = "icp_guard" /\ raised' = raised /\ ransac_used' = FALSE
    /\ UNCHANGED <<align_mode, inlier_px, contour_p, contour_d, n_inliers, err_ransac,
                   T_icp, final_warped_contour_d, trace, result>>

\* lines 434-445: call ransac_global_fit, test the result, apply T_ransac
RansacStage ==
    /\ UNCHANGED <<rvars, xvars>>
    /\ pc = "ransac"
    /\ trace' = Append(trace, "ransac")
    /\ \/ /\ pc' = Handler("ransac")
          /\ raised' = "ransac"
          /\ UNCHANGED <<n_inliers, err_ransac, ransac_used, final_warped_contour_d>>
       \/ \E r \in RansacOutcomes(inlier_px) :
            /\ n_inliers' = r.n
            /\ err_ransac' = r.err
            /\ ransac_used' = RansacAccepted(r.n, r.err, inlier_px)
            /\ final_warped_contour_d' =
                 IF RansacAccepted(r.n, r.err, inlier_px) THEN "ransac"
                 ELSE final_warped_contour_d
            /\ pc' = "icp_guard"
            /\ raised' = raised
    /\ UNCHANGED <<align_mode, inlier_px, contour_p, contour_d, T_icp, result>>

\* mutant: the guard forgets ransac_used
IcpWantedAlways(used, mode) == mode # "piecewise"

\* line 450: if not ransac_used and align_mode != 'piecewise'
IcpWanted(used, mode) == ~used /\ mode # "piecewise"

IcpGuard ==
    /\ UNCHANGED <<rvars, xvars>>
    /\ pc = "icp_guard"
    /\ pc' = IF IcpWanted(ransac_used, align_mode) THEN "icp" ELSE "visualize"
    /\ UNCHANGED <<align_mode, inlier_px, contour_p, contour_d, n_inliers, err_ransac,
                   ransac_used, T_icp, final_warped_contour_d, trace, raised, result>>

\* icp_rigid lines 279-282, 305: with fewer than 2 correspondences in the first
\* iteration the loop breaks and total_T is still np.eye(3)
IcpTransform(ncorr) == IF ncorr < IcpMinCorr THEN "identity" ELSE "estimated"

\* lines 451-457: call icp_rigid and apply T_icp, whatever it is
IcpStage ==
    /\ UNCHANGED <<rvars, xvars>>
    /\ pc = "icp"
    /\ trace' = Append(trace, "icp")
    /\ \/ /\ pc' = Handler("icp")
          /\ raised' = "icp"
          /\ UNCHANGED <<T_icp, final_warped_contour_d>>
       \/ \E ncorr \in 0..MaxCorr :
            /\ T_icp' = IcpTransform(ncorr)
            /\ final_warped_contour_d' = "icp"
            /\ pc' = "visualize"
            /\ raised' = raised
    /\ UNCHANGED <<align_mode, inlier_px, contour_p, contour_d, n_inliers, err_ransac,
                   ransac_used, result>>

\* the piecewise warp of lines 461-510 (and its copy 514-563)
PiecewiseWarp ==
    /\ UNCHANGED <<rvars, xvars>>
    /\ trace' = Append(trace, "piecewise")
    /\ final_warped_contour_d' =
         IF AnchorsAvailable(contour_p, contour_d) THEN "piecewise"
         ELSE final_warped_contour_d
    /\ pc' = "visualize"
    /\ UNCHANGED <<align_mode, inlier_px, contour_p, contour_d, n_inliers, err_ransac,
                   ransac_used, T_icp, raised, result>>

\* lines 458-510: handler of the inner try
InnerFallback ==
    /\ pc = "except_inner"
    /\ PiecewiseWarp

\* lines 511-563: handler of the outer try
OuterFallback ==
    /\ pc = "except_outer"
    /\ PiecewiseWarp

\* lines 565-753: plot, metrics, return (output_path, processing_time, metrics)
Finish ==
    /\ UNCHANGED <<rvars, xvars>>
    /\ pc = "visualize"
    /\ pc' = "done"
    /\ result' = "tuple"
    /\ UNCHANGED <<align_mode, inlier_px, contour_p, contour_d, n_inliers, err_ransac,
                   ransac_used, T_icp, final_warped_contour_d, trace, raised>>

\* ------------------------------------------------------------------------
\* Part II : ransac_global_fit
\* ------------------------------------------------------------------------
\* longest src cloud
MaxSrc == 3
\* longest dst cloud
MaxDst == 2
\* largest n_iter
MaxIter == 2

\* coordinates of the points the clouds are drawn from
CloudPoints == {<<0, 0>>, <<1, 0>>, <<0, 2>>}
\* values of inlier_threshold (pixels)
Thresholds == {1}
\* values of min_inliers
MinInlierValues == {2, 3}
\* the invocations that run side by side on the same arguments
Runs == {1, 2}

SeqsUpTo(S, n) == UNION {[1..k -> S] : k \in 0..n}
\* dst clouds: a repeated dst point never changes a nearest-neighbour lookup
\* (the first of equal points is taken), so dst is drawn without repetitions
DstClouds ==
    {d \in SeqsUpTo(CloudPoints, MaxDst) : \A i, j \in 1..Len(d) : i # j => d[i] # d[j]}

\* --- 2-D points as pairs, read as complex numbers where convenient ---
PAdd(a, b) == <<a[1] + b[1], a[2] + b[2]>>
PSub(a, b) == <<a[1] - b[1], a[2] - b[2]>>
PScale(k, a) == <<k * a[1], k * a[2]>>
CMul(a, b) == <<a[1] * b[1] - a[2] * b[2], a[1] * b[2] + a[2] * b[1]>>
Conj(a) == <<a[1], 0 - a[2]>>
Norm2(a) == a[1] * a[1] + a[2] * a[2]
Abs(x) == IF x < 0 THEN 0 - x ELSE x
Sgn(x) == IF x < 0 THEN 0 - 1 ELSE IF x > 0 THEN 1 ELSE 0

RECURSIVE PSum(_)
PSum(ps) == IF ps = <<>> THEN <<0, 0>> ELSE PAdd(Head(ps), PSum(Tail(ps)))

RECURSIVE ISqrtBetween(_, _, _)
ISqrtBetween(n, lo, hi) ==
    IF hi - lo <= 1 THEN lo
    ELSE LET mid == (lo + hi) \div 2
         IN IF mid * mid <= n THEN ISqrtBetween(n, mid, hi) ELSE ISqrtBetween(n, lo, mid)
\* floor of the square root
ISqrt(n) == ISqrtBetween(n, 0, IF n + 1 < 46340 THEN n + 1 ELSE 46340)

\* A 3x3 homogeneous transform with rows (m11 m12 tx)/den, (m21 m22 ty)/den, (0 0 1)
\* np.eye(3)
Eye3 == [m11 |-> 1, m12 |-> 0, m21 |-> 0, m22 |-> 1, tx |-> 0, ty |-> 0, den |-> 1]

RECURSIVE GCD(_, _)
GCD(a, b) == IF b = 0 THEN a ELSE GCD(b, a % b)

\* the matrix with 2x2 block a/den (a complex number: scale * rotation) and
\* translation t/den, as a fraction in lowest terms: equal matrices are
\* equal records
ComplexT(a, t, den) ==
    LET g == GCD(GCD(GCD(Abs(a[1]), Abs(a[2])), GCD(Abs(t[1]), Abs(t[2]))), den)
    IN [m11 |-> a[1] \div g, m12 |-> 0 - (a[2] \div g), m21 |-> a[2] \div g,
        m22 |-> a[1] \div g, tx |-> t[1] \div g, ty |-> t[2] \div g, den |-> den \div g]

\* N-fold centred points  N*p_i - sum(p)
Centred(ps) == [i \in 1..Len(ps) |-> PSub(PScale(Len(ps), ps[i]), PSum(ps))]

\* mutant: the centred src points are not conjugated
CrossCovNoConj(sp, dp) ==
    LET sc == Centred(sp)
        dc == Centred(dp)
    IN PSum([i \in 1..Len(sp) |-> CMul(sc[i], dc[i])])

\* sum_i conj(sc_i) * dc_i : the cross-covariance H read as a complex number.
\* Its argument is the angle of the rotation V U^T (with the det(R) < 0 repair)
\* and, when H has rank <= 1, its modulus is trace(S).
CrossCov(sp, dp) ==
    LET sc == Centred(sp)
        dc == Centred(dp)
    IN PSum([i \in 1..Len(sp) |-> CMul(Conj(sc[i]), dc[i])])

\* sum_i |sc_i|^2 : N^3 times var_src
SrcSpread(sp) == LET sc == Centred(sp) IN PSum([i \in 1..Len(sp) |-> <<Norm2(sc[i]), 0>>])[1]

\* _compute_similarity_transform (the transform it returns) for matched point
\* lists sp, dp whose cross-covariance H has det(H) >= 0, so that trace(S) is
\* the modulus of w: a 2-point sample, a dst of at most 2 distinct points
\* (rank <= 1), or clouds related by a proper similarity:
\* scale * R = w / spread, t = dst_mean - scale * R * src_mean;
\* var_src = 0 gives scale 1 and, H being 0, R = I;
\* H = 0 with var_src > 0 gives scale = trace(S)/var_src = 0.
compute_similarity_transform(sp, dp) ==
    IF Len(sp) = 0 \/ Len(dp) = 0 THEN Eye3
    ELSE LET N  == Len(sp)
             w0 == CrossCov(sp, dp)
             v0 == SrcSpread(sp)
             g  == GCD(GCD(Abs(w0[1]), Abs(w0[2])), v0)
             w  == IF g = 0 THEN w0 ELSE <<w0[1] \div g, w0[2] \div g>>
             v  == IF g = 0 THEN v0 ELSE v0 \div g
         IN IF v = 0
              THEN ComplexT(<<N, 0>>, PSub(PSum(dp), PSum(sp)), N)
              ELSE ComplexT(PScale(N, w),
                            PSub(PScale(v, PSum(dp)), CMul(w, PSum(sp))),
                            N * v)

\* the unit complex number w/|w| in units of 1/ErrScale (w # 0)
UnitOf(w) ==
    LET g  == GCD(Abs(w[1]), Abs(w[2]))
        a  == Abs(w[1]) \div g
        b  == Abs(w[2]) \div g
        n2 == a * a + b * b
    IN <<Sgn(w[1]) * ISqrt((ErrScale * ErrScale * a * a) \div n2),
         Sgn(w[2]) * ISqrt((ErrScale * ErrScale * b * b) \div n2)>>

\* _compute_rigid_transform (the transform it returns): R = V U^T with the
\* det(R) < 0 repair, I when H = 0; t = dst_mean - R * src_mean
compute_rigid_transform(sp, dp) ==
    IF Len(sp) = 0 \/ Len(dp) = 0 THEN Eye3
    ELSE LET N == Len(sp)
             w == CrossCov(sp, dp)
             u == IF w = <<0, 0>> THEN <<ErrScale, 0>> ELSE UnitOf(w)
         IN ComplexT(PScale(N, u),
                     PSub(PScale(ErrScale, PSum(dp)), CMul(u, PSum(sp))),
                     N * ErrScale)

\* numerator of (R @ p) + t over T.den
ApplyNum(T, p) ==
    <<T.m11 * p[1] + T.m12 * p[2] + T.tx, T.m21 * p[1] + T.m22 * p[2] + T.ty>>

\* den^2 times the squared distance between T(p) and c
DistNum(T, p, c) == Norm2(PSub(ApplyNum(T, p), PScale(T.den, c)))

\* np.linalg.norm(src_trans - corr_dst) for one point, in 1/ErrScale pixels
Dist(T, p, c) == ISqrt((ErrScale * ErrScale * DistNum(T, p, c)) \div (T.den * T.den))

\* dists <= inlier_threshold for one point
IsInlier(T, p, c, thr) == DistNum(T, p, c) <= thr * thr * T.den * T.den

\* nearest neighbour of p in cloud: dists_full.argmin (the first of the nearest)
Nearest(p, cloud) ==
    CHOOSE j \in 1..Len(cloud) :
        /\ \A k \in 1..Len(cloud) : Norm2(PSub(p, cloud[j])) <= Norm2(PSub(p, cloud[k]))
        /\ \A k \in 1..(j - 1) : Norm2(PSub(p, cloud[k])) > Norm2(PSub(p, cloud[j]))

\* lines 326-336: nn0 and corr_dst = dst[nn0]
CorrTable(s, d) == [i \in 1..Len(s) |-> d[Nearest(s[i], d)]]

\* int(mask.sum())
RECURSIVE CountTrue(_)
CountTrue(mask) ==
    IF mask = <<>> THEN 0 ELSE (IF Head(mask) THEN 1 ELSE 0) + CountTrue(Tail(mask))

RECURSIVE SumSeq(_)
SumSeq(xs) == IF xs = <<>> THEN 0 ELSE Head(xs) + SumSeq(Tail(xs))

\* np.zeros(src.shape[0], dtype=bool)
AllFalse(n) == [i \in 1..n |-> FALSE]

\* lines 344-352: the transform of the sample (i1, i2)
SampleTransform(s, corr, i1, i2, scale) ==
    IF scale THEN compute_similarity_transform(<<s[i1], s[i2]>>, <<corr[i1], corr[i2]>>)
             ELSE compute_rigid_transform(<<s[i1], s[i2]>>, <<corr[i1], corr[i2]>>)

\* lines 356-360: inliers = dists <= inlier_threshold
InlierMask(T, s, corr, thr) == [i \in 1..Len(s) |-> IsInlier(T, s[i], corr[i], thr)]

\* line 365: float(dists[inliers].mean()) if n_in > 0 else inf
MeanInlierErr(T, s, corr, mask) ==
    LET n == CountTrue(mask)
    IN IF n = 0 THEN Infinity
       ELSE SumSeq([i \in 1..Len(s) |-> IF mask[i] THEN Dist(T, s[i], corr[i]) ELSE 0]) \div n

\* mutant: only src is tested
TooFewPointsSrcOnly(s, d) == Len(s) < 2

\* line 319: the early return test
TooFewPoints(s, d) == Len(s) < 2 \/ Len(d) < 2

\* mutant: a candidate is kept when it reaches half of min_inliers
SkippedBelowHalf(n_in, minin) == 2 * n_in < minin

\* line 362: if n_in < min_inliers: continue
Skipped(n_in, minin) == n_in < minin

\* mutant: an equal inlier count replaces the best model whatever its error
BetterOrEqualCount(n_in, mean_err, best_n, berr) == n_in >= best_n

\* line 366: the test that replaces the best model
Better(n_in, mean_err, best_n, berr) ==
    n_in > best_n \/ (n_in = best_n /\ mean_err < berr)

\* nearest neighbour in cloud of the transformed point T(p), first of the nearest
NearestOfMoved(T, p, cloud) ==
    CHOOSE j \in 1..Len(cloud) :
        /\ \A k \in 1..Len(cloud) : DistNum(T, p, cloud[j]) <= DistNum(T, p, cloud[k])
        /\ \A k \in 1..(j - 1) : DistNum(T, p, cloud[k]) > DistNum(T, p, cloud[j])

\* mutant: every iteration re-queries dst from the transformed src
Requery(corr, T, s, d) == [i \in 1..Len(s) |-> d[NearestOfMoved(T, s[i], d)]]

\* the loop body never assigns corr_dst: the table after an iteration that
\* estimated T is the table before it
TableAfterIteration(corr, T, s, d) == corr

Failure(n) == [T |-> Eye3, err |-> Infinity, inliers |-> AllFalse(n)]

ROff ==
    /\ src = <<>> /\ dst = <<>> /\ n_iter = 0 /\ inlier_threshold = 0
    /\ allow_scale = FALSE /\ min_inliers = 0
    /\ rpc = [r \in Runs |-> "off"]
    /\ corr_dst = [r \in Runs |-> <<>>]
    /\ iter = [r \in Runs |-> 0]
    /\ best_T = [r \in Runs |-> Eye3]
    /\ best_err = [r \in Runs |-> Infinity]
    /\ best_inliers = [r \in Runs |-> <<>>]
    /\ seen = [r \in Runs |-> {}]
    /\ ret = [r \in Runs |-> Failure(0)]

OOff ==
    /\ pc = "off" /\ align_mode = "ransac" /\ inlier_px = 25
    /\ contour_p = [found |-> FALSE, n |-> 0]
    /\ contour_d = [found |-> FALSE, n |-> 0]
    /\ n_inliers = 0 /\ err_ransac = Infinity /\ ransac_used = FALSE
    /\ T_icp = "none" /\ final_warped_contour_d = "unset" /\ trace = <<>>
    /\ raised = "none" /\ result = "running"

\* the arguments of a call, and which invocations run
RInit(active) ==
    /\ src \in SeqsUpTo(CloudPoints, MaxSrc)
    /\ dst \in DstClouds
    /\ n_iter \in {0, MaxIter}
    /\ inlier_threshold \in Thresholds
    /\ allow_scale \in BOOLEAN
    /\ min_inliers \in MinInlierValues
    /\ rpc = [r \in Runs |-> IF r \in active THEN "entry" ELSE "off"]
    /\ corr_dst = [r \in Runs |-> <<>>]
    /\ iter = [r \in Runs |-> 0]
    /\ best_T = [r \in Runs |-> Eye3]
    /\ best_err = [r \in Runs |-> Infinity]
    /\ best_inliers = [r \in Runs |-> <<>>]
    /\ seen = [r \in Runs |-> {}]
    /\ ret = [r \in Runs |-> Failure(0)]

\* lines 317-339: reshape, early return, initial best model, correspondence table.
\* With an empty dst the table lookup dst[nn0] has nothing to index and raises.
RansacEntry(r) ==
    /\ UNCHANGED <<ovars, xvars>>
    /\ rpc[r] = "entry"
    /\ IF TooFewPoints(src, dst)
         THEN /\ ret' = [ret EXCEPT ![r] = Failure(Len(src))]
              /\ rpc' = [rpc EXCEPT ![r] = "returned"]
              /\ UNCHANGED <<corr_dst, best_T, best_err, best_inliers>>
         ELSE /\ best_T' = [best_T EXCEPT ![r] = Eye3]
              /\ best_err' = [best_err EXCEPT ![r] = Infinity]
              /\ best_inliers' = [best_inliers EXCEPT ![r] = AllFalse(Len(src))]
              /\ IF Len(dst) = 0
                   THEN /\ rpc' = [rpc EXCEPT ![r] = "raised"]
                        /\ UNCHANGED corr_dst
                   ELSE /\ corr_dst' = [corr_dst EXCEPT ![r] = CorrTable(src, dst)]
                        /\ rpc' = [rpc EXCEPT ![r] = "loop"]
              /\ UNCHANGED ret
    /\ UNCHANGED <<src, dst, n_iter, inlier_threshold, allow_scale, min_inliers, iter, seen>>

\* lines 341-369: one iteration of the sampling loop; rng.choice(n_src, size=2,
\* replace=False) draws two distinct indices from a generator created inside
\* the call (line 338), and raises when n_src < 2
RansacIterate(r) ==
    /\ UNCHANGED <<ovars, xvars>>
    /\ rpc[r] = "loop"
    /\ iter[r] < n_iter
    /\ IF Len(src) < 2
         THEN /\ rpc' = [rpc EXCEPT ![r] = "raised"]
              /\ UNCHANGED <<corr_dst, iter, best_T, best_err, best_inliers, seen>>
         ELSE \E i1 \in 1..Len(src), i2 \in 1..Len(src) :
                /\ i1 # i2
                /\ \E T \in {SampleTransform(src, corr_dst[r], i1, i2, allow_scale)} :
                   \E inliers \in {InlierMask(T, src, corr_dst[r], inlier_threshold)} :
                   \E n_in \in {CountTrue(inliers)} :
                   \E mean_err \in {MeanInlierErr(T, src, corr_dst[r], inliers)} :
                      /\ IF Skipped(n_in, min_inliers)
                           THEN UNCHANGED <<best_T, best_err, best_inliers, seen>>
                           ELSE /\ seen' = [seen EXCEPT ![r] =
                                              @ \cup {[n |-> n_in, err |-> mean_err]}]
                                /\ IF Better(n_in, mean_err, CountTrue(best_inliers[r]), best_err[r])
                                     THEN /\ best_inliers' = [best_inliers EXCEPT ![r] = inliers]
                                          /\ best_T' = [best_T EXCEPT ![r] = T]
                                          /\ best_err' = [best_err EXCEPT ![r] = mean_err]
                                     ELSE UNCHANGED <<best_T, best_err, best_inliers>>
                      /\ corr_dst' = [corr_dst EXCEPT ![r] = TableAfterIteration(@, T, src, dst)]
                /\ iter' = [iter EXCEPT ![r] = @ + 1]
                /\ rpc' = rpc
    /\ UNCHANGED <<src, dst, n_iter, inlier_threshold, allow_scale, min_inliers, ret>>

\* line 371: return best_T, best_err, best_inliers
RansacReturn(r) ==
    /\ UNCHANGED <<ovars, xvars>>
    /\ rpc[r] = "loop"
    /\ iter[r] = n_iter
    /\ ret' = [ret EXCEPT ![r] = [T |-> best_T[r], err |-> best_err[r],
                                  inliers |-> best_inliers[r]]]
    /\ rpc' = [rpc EXCEPT ![r] = "returned"]
    /\ UNCHANGED <<src, dst, n_iter, inlier_threshold, allow_scale, min_inliers,
                   corr_dst, iter, best_T, best_err, best_inliers, seen>>

\* ------------------------------------------------------------------------
\* Part III : icp_rigid
\* ------------------------------------------------------------------------
\* largest max_iter
MaxIcpIter == 3

\* line 262: src.shape[0] < 2 or dst.shape[0] < 2
IcpMinPoints == 2
\* coordinates of the points the clouds of icp_rigid are drawn from
IcpPoints == {<<0, 0>>, <<1, 0>>, <<0, 2>>, <<1, 1>>}
\* values of outlier_threshold (pixels)
OutlierThresholds == {1, 2}
\* values of tol, in 1/ErrScale pixels
Tolerances == {1, 2 * ErrScale}
\* dst clouds of icp_rigid: up to the shortest length the loop runs on, so that
\* every cross-covariance met has rank <= 1 and the estimators above are exact
IcpDstClouds ==
    {d \in SeqsUpTo(IcpPoints, IcpMinPoints) : \A i, j \in 1..Len(d) : i # j => d[i] # d[j]}

\* a 3x3 homogeneous matrix as a fraction in lowest terms
NormT(T) ==
    LET g == GCD(GCD(GCD(Abs(T.m11), Abs(T.m12)), GCD(Abs(T.m21), Abs(T.m22))),
                 GCD(GCD(Abs(T.tx), Abs(T.ty)), T.den))
    IN [m11 |-> T.m11 \div g, m12 |-> T.m12 \div g, m21 |-> T.m21 \div g,
        m22 |-> T.m22 \div g, tx |-> T.tx \div g, ty |-> T.ty \div g, den |-> T.den \div g]

\* the matrix product A @ B
MatMul(A, B) ==
    NormT([m11 |-> A.m11 * B.m11 + A.m12 * B.m21,
           m12 |-> A.m11 * B.m12 + A.m12 * B.m22,
           m21 |-> A.m21 * B.m11 + A.m22 * B.m21,
           m22 |-> A.m21 * B.m12 + A.m22 * B.m22,
           tx  |-> A.m11 * B.tx + A.m12 * B.ty + A.tx * B.den,
           ty  |-> A.m21 * B.tx + A.m22 * B.ty + A.ty * B.den,
           den |-> A.den * B.den])

\* mutant: the step is composed on the right
AccumulateRight(T, total) == MatMul(total, T)

\* line 299: total_T = T @ total_T
Accumulate(T, total) == MatMul(T, total)

RECURSIVE GCDOfPoints(_)
GCDOfPoints(ps) ==
    IF ps = <<>> THEN 0
    ELSE GCD(GCD(Abs(Head(ps)[1]), Abs(Head(ps)[2])), GCDOfPoints(Tail(ps)))

\* a cloud of points pts / den with the fractions in lowest terms
NormCloud(pts, den) ==
    LET g == GCD(GCDOfPoints(pts), den)
    IN [pts |-> [i \in 1..Len(pts) |-> <<pts[i][1] \div g, pts[i][2] \div g>>],
        den |-> den \div g]

\* dst scaled by the denominator of the current cloud
ScaledCloud(D, cloud) == [k \in 1..Len(cloud) |-> PScale(D, cloud[k])]

\* lines 270-277: nn_idx, one entry per current point (first of the nearest)
IcpNearestIdx(cur, d) ==
    [i \in 1..Len(cur.pts) |-> Nearest(cur.pts[i], ScaledCloud(cur.den, d))]

\* line 280: inlier_mask = nn_dists <= outlier_threshold
IcpInlierMask(cur, d, nn, thr) ==
    [i \in 1..Len(cur.pts) |->
        Norm2(PSub(cur.pts[i], PScale(cur.den, d[nn[i]]))) <= thr * thr * cur.den * cur.den]

\* xs[mask]
RECURSIVE Pick(_, _)
Pick(xs, mask) ==
    IF xs = <<>> THEN <<>>
    ELSE (IF Head(mask) THEN <<Head(xs)>> ELSE <<>>) \o Pick(Tail(xs), Tail(mask))

\* mutant: one correspondence is enough to go on
TooFewCorrNone(n) == n < 1

\* line 281: if inlier_mask.sum() < 2: break
TooFewCorr(n) == n < IcpMinCorr

\* lines 288-291: the estimator called on numerators of src_in and on dst_in
\* scaled alike; its result is the step in the frame scaled by the denominator
StepFit(sn, dn, scale) ==
    IF scale THEN compute_similarity_transform(sn, dn) ELSE compute_rigid_transform(sn, dn)

\* the step of the scaled frame (scale D) as a transform of the pixel frame
Unscaled(T, D) ==
    NormT([m11 |-> T.m11 * D, m12 |-> T.m12 * D, m21 |-> T.m21 * D, m22 |-> T.m22 * D,
           tx |-> T.tx, ty |-> T.ty, den |-> T.den * D])

\* lines 204-206 / 243-245: mean_err of the estimator, in 1/ErrScale pixels,
\* for points given in the frame scaled by D
StepMeanErr(T, sn, dn, D) ==
    SumSeq([i \in 1..Len(sn) |->
              ISqrt((ErrScale * ErrScale * DistNum(T, sn[i], dn[i])) \div (T.den * T.den * D * D))])
        \div Len(sn)

\* lines 294-296: current_src = (R @ current_src.T).T + t, every point
ApplyToCloud(T, cur) ==
    NormCloud([i \in 1..Len(cur.pts) |-> ApplyNum(T, cur.pts[i])], T.den * cur.den)

\* mutant: the loop never stops on convergence
ConvergedNever(prev, err, t) == FALSE

\* line 301: abs(prev_error - mean_err) < tol
Converged(prev, err, t) == Abs(prev - err) < t

Cloud(ps) == [pts |-> ps, den |-> 1]

IOff ==
    /\ icp_src = <<>> /\ icp_dst = <<>> /\ max_iter = 0 /\ tol = 0
    /\ outlier_threshold = 0 /\ icp_allow_scale = FALSE
    /\ ipc = "off" /\ icp_i = 0 /\ current_src = Cloud(<<>>) /\ total_T = Eye3
    /\ prev_error = Infinity /\ icp_log = <<>>
    /\ icp_ret = [cloud |-> Cloud(<<>>), T |-> Eye3]

\* the arguments of a call of icp_rigid
IInit ==
    /\ icp_src \in SeqsUpTo(IcpPoints, MaxSrc)
    /\ icp_dst \in IcpDstClouds
    /\ max_iter \in {0, MaxIcpIter}
    /\ tol \in Tolerances
    /\ outlier_threshold \in OutlierThresholds
    /\ icp_allow_scale \in BOOLEAN
    /\ ipc = "entry" /\ icp_i = 0 /\ current_src = Cloud(<<>>) /\ total_T = Eye3
    /\ prev_error = Infinity /\ icp_log = <<>>
    /\ icp_ret = [cloud |-> Cloud(<<>>), T |-> Eye3]

\* lines 258-267: the early return, prev_error, current_src, total_T
IcpEntry ==
    /\ UNCHANGED <<ovars, rvars, evars, svars, wvars, mvars, hvars>>
    /\ ipc = "entry"
    /\ IF Len(icp_src) < IcpMinPoints \/ Len(icp_dst) < IcpMinPoints
         THEN /\ icp_ret' = [cloud |-> Cloud(icp_src), T |-> Eye3]
              /\ ipc' = "returned"
              /\ UNCHANGED <<current_src, total_T, prev_error>>
         ELSE /\ prev_error' = Infinity
              /\ current_src' = Cloud(icp_src)
              /\ total_T' = Eye3
              /\ ipc' = "loop"
              /\ UNCHANGED icp_ret
    /\ UNCHANGED <<icp_src, icp_dst, max_iter, tol, outlier_threshold, icp_allow_scale,
                   icp_i, icp_log>>

\* lines 269-303: one pass of the loop
IcpIterate ==
    /\ UNCHANGED <<ovars, rvars, evars, svars, wvars, mvars, hvars>>
    /\ ipc = "loop"
    /\ icp_i < max_iter
    /\ icp_i' = icp_i + 1
    /\ \E nn \in {IcpNearestIdx(current_src, icp_dst)} :
       \E mask \in {IcpInlierMask(current_src, icp_dst, nn, outlier_threshold)} :
       \E n_in \in {CountTrue(mask)} :
         IF TooFewCorr(n_in)
           THEN /\ ipc' = "exit"
                /\ icp_log' = Append(icp_log, [n |-> n_in, err |-> Infinity, prev |-> prev_error])
                /\ UNCHANGED <<current_src, total_T, prev_error>>
           ELSE \E sn \in {Pick(current_src.pts, mask)} :
                \E dn \in {Pick([i \in 1..Len(nn) |-> PScale(current_src.den, icp_dst[nn[i]])], mask)} :
                \E T \in {StepFit(sn, dn, icp_allow_scale)} :
                \E mean_err \in {StepMeanErr(T, sn, dn, current_src.den)} :
                  /\ current_src' = ApplyToCloud(T, current_src)
                  /\ total_T' = Accumulate(Unscaled(T, current_src.den), total_T)
                  /\ icp_log' = Append(icp_log, [n |-> n_in, err |-> mean_err, prev |-> prev_error])
                  /\ IF Converged(prev_error, mean_err, tol)
                       THEN ipc' = "exit" /\ prev_error' = prev_error
                       ELSE ipc' = "loop" /\ prev_error' = mean_err
    /\ UNCHANGED <<icp_src, icp_dst, max_iter, tol, outlier_threshold, icp_allow_scale, icp_ret>>

\* line 305: return current_src, total_T
IcpReturn ==
    /\ UNCHANGED <<ovars, rvars, evars, svars, wvars, mvars, hvars>>
    /\ \/ ipc = "exit"
       \/ ipc = "loop" /\ icp_i = max_iter
    /\ icp_ret' = [cloud |-> current_src, T |-> total_T]
    /\ ipc' = "returned"
    /\ UNCHANGED <<icp_src, icp_dst, max_iter, tol, outlier_threshold, icp_allow_scale,
                   icp_i, current_src, total_T, prev_error, icp_log>>

\* ------------------------------------------------------------------------
\* Part IV : the estimators on clouds related by a similarity
\* ------------------------------------------------------------------------
\* scale * R of the similarities applied: the four quarter turns, a doubling,
\* a doubling with a quarter turn back, and the turn by 45 degrees with
\* scale sqrt(2)
Similarities == {<<1, 0>>, <<0, 1>>, <<0 - 1, 0>>, <<0, 0 - 1>>, <<2, 0>>, <<0, 0 - 2>>, <<1, 1>>}
\* translations applied
Translations == {<<0, 0>>, <<1, 0 - 2>>}

\* tests/test_alignment.py, apply_sim_transform: scale * (R @ pts.T).T + [tx, ty]
apply_sim_transform(pts, a, t) == [i \in 1..Len(pts) |-> PAdd(CMul(a, pts[i]), t)]

\* lines 204-206 and 243-245: the mean residual the estimators return
MeanResidual(T, sp, dp) ==
    IF Len(sp) = 0 THEN Infinity
    ELSE SumSeq([i \in 1..Len(sp) |-> Dist(T, sp[i], dp[i])]) \div Len(sp)

\* lines 180-181 and 216-217: empty input gives (np.eye(3), inf)
Estimate(sp, dp, similarity) ==
    IF Len(sp) = 0 \/ Len(dp) = 0 THEN [T |-> Eye3, err |-> Infinity]
    ELSE LET T == IF similarity THEN compute_similarity_transform(sp, dp)
                                ELSE compute_rigid_transform(sp, dp)
         IN [T |-> T, err |-> MeanResidual(T, sp, dp)]

EOff ==
    /\ est_src = <<>> /\ est_a = <<1, 0>> /\ est_t = <<0, 0>> /\ est_similarity = FALSE
    /\ est_dst = <<>> /\ est_T = Eye3 /\ est_err = Infinity /\ epc = "off"

EInit ==
    /\ est_src \in SeqsUpTo(CloudPoints, MaxSrc)
    /\ est_a \in Similarities
    /\ est_t \in Translations
    /\ est_similarity \in BOOLEAN
    /\ est_dst = <<>> /\ est_T = Eye3 /\ est_err = Infinity /\ epc = "start"

\* dst = scale * R * src + t
MakeDst ==
    /\ UNCHANGED <<ovars, rvars, ivars, svars, wvars, mvars, hvars>>
    /\ epc = "start"
    /\ est_dst' = apply_sim_transform(est_src, est_a, est_t)
    /\ epc' = "estimate"
    /\ UNCHANGED <<est_src, est_a, est_t, est_similarity, est_T, est_err>>

\* T, err = _compute_similarity_transform(src, dst) or _compute_rigid_transform(src, dst)
CallEstimator ==
    /\ UNCHANGED <<ovars, rvars, ivars, svars, wvars, mvars, hvars>>
    /\ epc = "estimate"
    /\ \E res \in {Estimate(est_src, est_dst, est_similarity)} :
         est_T' = res.T /\ est_err' = res.err
    /\ epc' = "done"
    /\ UNCHANGED <<est_src, est_a, est_t, est_similarity, est_dst>>

\* ------------------------------------------------------------------------
\* Part V : ransac_global_fit on a cloud with gross outliers
\* ------------------------------------------------------------------------
\* points of a scene, and how many of them are displaced
ScenePoints == 4
SceneOutliers == 1
\* the displacement of a gross outlier, far beyond every inlier_threshold
GrossOffset == <<8, 8>>
\* values of inlier_threshold in a scene (pixels)
SceneThresholds == {1, 2}
\* the known transforms: identity, a shift, a quarter turn
KnownTransforms == {<<<<1, 0>>, <<0, 0>>>>, <<<<1, 0>>, <<1, 0>>>>, <<<<0, 1>>, <<0, 0>>>>}

\* src clouds of a scene: ScenePoints distinct points
SceneClouds ==
    {c \in [1..ScenePoints -> IcpPoints] : \A i, j \in 1..ScenePoints : i # j => c[i] # c[j]}

\* tests/test_alignment.py lines 37-40: dst = apply_sim_transform(pts, ...),
\* then dst[idx] += (a gross displacement)
SceneDst(pts, a, t, idx) ==
    LET d == apply_sim_transform(pts, a, t)
    IN [i \in 1..Len(pts) |-> IF i \in idx THEN PAdd(d[i], GrossOffset) ELSE d[i]]

SOff == known_a = <<1, 0>> /\ known_t = <<0, 0>> /\ displaced = {}

\* the arguments of the call of line 43
SInit ==
    /\ \E k \in KnownTransforms : known_a = k[1] /\ known_t = k[2]
    /\ displaced \in {idx \in SUBSET (1..ScenePoints) : Cardinality(idx) = SceneOutliers}
    /\ src \in SceneClouds
    /\ dst = SceneDst(src, known_a, known_t, displaced)
    /\ n_iter \in {1, MaxIter}
    /\ inlier_threshold \in SceneThresholds
    /\ allow_scale \in BOOLEAN
    /\ min_inliers \in MinInlierValues
    /\ rpc = [r \in Runs |-> IF r = 1 THEN "entry" ELSE "off"]
    /\ corr_dst = [r \in Runs |-> <<>>]
    /\ iter = [r \in Runs |-> 0]
    /\ best_T = [r \in Runs |-> Eye3]
    /\ best_err = [r \in Runs |-> Infinity]
    /\ best_inliers = [r \in Runs |-> <<>>]
    /\ seen = [r \in Runs |-> {}]
    /\ ret = [r \in Runs |-> Failure(0)]

\* ------------------------------------------------------------------------
\* Part VI : the piecewise fallback on concrete curves
\* ------------------------------------------------------------------------
\* Curves run top to bottom, one point per row; the column follows a shape.
RefShapes == {"line", "zag"}
SampleShapes == {"line", "zig", "bend"}
\* column of the reference curves
RefColumn == 2

Column(shape, i) ==
    CASE shape = "line" -> 0
      [] shape = "zig"  -> i % 2
      [] shape = "zag"  -> 1 - (i % 2)
      [] shape = "bend" -> IF i % 3 = 1 THEN 1 ELSE 0

CurveOf(shape, x0, n) == [i \in 1..n |-> <<x0 + Column(shape, i - 1), i - 1>>]

\* lines 165-166: contour[:k] and contour[-k:]; <<>> stands for None
TopAnchor(c, k) == SubSeq(c, 1, k)
BottomAnchor(c, k) == SubSeq(c, Len(c) - k + 1, Len(c))

\* cv2.moments of a point array is the moment set of the closed polygon through
\* the points (Green's formula): with d_i = x_{i-1} y_i - x_i y_{i-1} over the
\* cyclic sequence, a00 = sum d_i, a10 = sum d_i (x_{i-1} + x_i),
\* a01 = sum d_i (y_{i-1} + y_i); m00 = |a00| / 2, m10 = +-a10 / 6, m01 = +-a01 / 6
Prev(c, i) == IF i = 1 THEN c[Len(c)] ELSE c[i - 1]
Dxy(c, i) == Prev(c, i)[1] * c[i][2] - c[i][1] * Prev(c, i)[2]
A00(c) == SumSeq([i \in 1..Len(c) |-> Dxy(c, i)])
A10(c) == SumSeq([i \in 1..Len(c) |-> Dxy(c, i) * (Prev(c, i)[1] + c[i][1])])
A01(c) == SumSeq([i \in 1..Len(c) |-> Dxy(c, i) * (Prev(c, i)[2] + c[i][2])])

\* a fraction pair (x / den, y / den) in lowest terms with den > 0
Frac(x, y, den) ==
    LET g == GCD(GCD(Abs(x), Abs(y)), Abs(den))
        q == IF den < 0 THEN 0 - g ELSE g
    IN [x |-> x \div q, y |-> y \div q, den |-> den \div q]
FracZero == [x |-> 0, y |-> 0, den |-> 1]
FracSub(a, b) == Frac(a.x * b.den - b.x * a.den, a.y * b.den - b.y * a.den, a.den * b.den)

\* M["m00"] != 0
HasArea(c) == A00(c) # 0
\* (M["m10"] / M["m00"], M["m01"] / M["m00"])
MomentCentroid(c) == Frac(A10(c), A01(c), 3 * A00(c))

\* lines 466-476 (top) and 479-489 (bottom)
AnchorShift(ap, ad) ==
    IF HasArea(ap) /\ HasArea(ad)
      THEN FracSub(MomentCentroid(ap), MomentCentroid(ad))
      ELSE FracZero

\* conversion of a float to int32: the fraction part is dropped
TruncDiv(a, b) == IF a >= 0 THEN a \div b ELSE 0 - ((0 - a) \div b)

\* lines 496-503: (dx, dy) of the point at index i (from 0) of num_points,
\* weight = (num_points - 1 - i) / (num_points - 1), 1.0 for a single point
Offset(i, num_points, dt, db) ==
    IF num_points > 1
      THEN Frac((num_points - 1 - i) * dt.x * db.den + i * db.x * dt.den,
                (num_points - 1 - i) * dt.y * db.den + i * db.y * dt.den,
                (num_points - 1) * dt.den * db.den)
      ELSE dt

\* lines 505-507: [x + dx, y + dy] stored with dtype=np.int32
WarpPoint(pt, i, num_points, dt, db) ==
    LET o == Offset(i, num_points, dt, db)
    IN <<TruncDiv(pt[1] * o.den + o.x, o.den), TruncDiv(pt[2] * o.den + o.y, o.den)>>

WOff ==
    /\ curve_p = <<>> /\ curve_d = <<>>
    /\ top_p = <<>> /\ bottom_p = <<>> /\ top_d = <<>> /\ bottom_d = <<>>
    /\ delta_top = FracZero /\ delta_bottom = FracZero
    /\ warped_points = "unset" /\ wpc = "off"

WInit ==
    /\ curve_p \in {CurveOf(sh, RefColumn, n) : sh \in RefShapes, n \in 0..MaxCurveLen}
    /\ curve_d \in {CurveOf(sh, 0, n) : sh \in SampleShapes, n \in 0..MaxCurveLen}
    /\ top_p = <<>> /\ bottom_p = <<>> /\ top_d = <<>> /\ bottom_d = <<>>
    /\ delta_top = FracZero /\ delta_bottom = FracZero
    /\ warped_points = "unset" /\ wpc = "segment"

\* lines 461-462: top_p, bottom_p = segment_profile(contour_p), the same for contour_d
PwSegment ==
    /\ UNCHANGED <<ovars, rvars, ivars, evars, svars, mvars, hvars>>
    /\ wpc = "segment"
    /\ \E kp \in {segment_profile([found |-> TRUE, n |-> Len(curve_p)])} :
       \E kd \in {segment_profile([found |-> TRUE, n |-> Len(curve_d)])} :
         /\ top_p' = TopAnchor(curve_p, kp) /\ bottom_p' = BottomAnchor(curve_p, kp)
         /\ top_d' = TopAnchor(curve_d, kd) /\ bottom_d' = BottomAnchor(curve_d, kd)
    /\ wpc' = "shifts"
    /\ UNCHANGED <<curve_p, curve_d, delta_top, delta_bottom, warped_points>>

\* lines 464-489 and 509-510: the anchor translations, or the warning when a
\* segment is None
PwShifts ==
    /\ UNCHANGED <<ovars, rvars, ivars, evars, svars, mvars, hvars>>
    /\ wpc = "shifts"
    /\ IF top_p # <<>> /\ bottom_p # <<>> /\ top_d # <<>> /\ bottom_d # <<>>
         THEN /\ delta_top' = AnchorShift(top_p, top_d)
              /\ delta_bottom' = AnchorShift(bottom_p, bottom_d)
              /\ wpc' = "warp"
         ELSE /\ wpc' = "failed"
              /\ UNCHANGED <<delta_top, delta_bottom>>
    /\ UNCHANGED <<curve_p, curve_d, top_p, bottom_p, top_d, bottom_d, warped_points>>

\* lines 492-507: the interpolated warp of contour_d
PwWarp ==
    /\ UNCHANGED <<ovars, rvars, ivars, evars, svars, mvars, hvars>>
    /\ wpc = "warp"
    /\ warped_points' = [j \in 1..Len(curve_d) |->
                            WarpPoint(curve_d[j], j - 1, Len(curve_d), delta_top, delta_bottom)]
    /\ wpc' = "done"
    /\ UNCHANGED <<curve_p, curve_d, top_p, bottom_p, top_d, bottom_d, delta_top, delta_bottom>>

\* ------------------------------------------------------------------------
\* Part VII : the deviation metrics
\* ------------------------------------------------------------------------
\* _resample_polyline(xp, yp, n=300)
ResampleCount == 300
\* np.percentile(deviations, 95)
Percentile == 95
\* deviations are kept in 1/DevScale pixels, DevScale = 10^DevDigits
DevDigits == 3
DevScale == 1000
\* most steps of a curve
MaxSteps == 2
\* steps between consecutive points of a curve: right, down, none
MetricSteps == {<<1, 0>>, <<0, 1>>, <<0, 0>>}
\* constant offsets between curves
Offsets == {<<0, 0>>, <<3, 4>>}

RECURSIVE Polyline(_)
Polyline(steps) ==
    IF steps = <<>> THEN <<<<0, 0>>>>
    ELSE LET c == Polyline(SubSeq(steps, 1, Len(steps) - 1))
         IN Append(c, PAdd(c[Len(c)], steps[Len(steps)]))
\* the curves: the empty one, and the polylines from the origin
MetricCurves == {<<>>} \cup {Polyline(st) : st \in SeqsUpTo(MetricSteps, MaxSteps)}
Shifted(c, o) == [i \in 1..Len(c) |-> PAdd(c[i], o)]

\* ds = np.hypot(np.diff(x), np.diff(y)) for segment k; the segments are
\* parallel to an axis, so the length is the one non-zero difference
SegLen(c, k) == Abs(c[k + 1][1] - c[k][1]) + Abs(c[k + 1][2] - c[k][2])
\* s = np.concatenate([[0.0], np.cumsum(ds)]) at point k
RECURSIVE CumLen(_, _)
CumLen(c, k) == IF k <= 1 THEN 0 ELSE CumLen(c, k - 1) + SegLen(c, k - 1)

\* np.interp(s_new, s, x) and np.interp(s_new, s, y) at arc length
\* t / (ResampleCount - 1), as numerators over ResampleCount - 1
Interp(c, t) ==
    LET m == ResampleCount - 1
        k == CHOOSE k \in 1..(Len(c) - 1) :
                /\ SegLen(c, k) > 0
                /\ CumLen(c, k) * m <= t /\ t <= CumLen(c, k + 1) * m
                /\ \A h \in 1..(k - 1) :
                       ~(SegLen(c, h) > 0 /\ CumLen(c, h) * m <= t /\ t <= CumLen(c, h + 1) * m)
        u == t - CumLen(c, k) * m
    IN <<c[k][1] * m + ((c[k + 1][1] - c[k][1]) \div SegLen(c, k)) * u,
         c[k][2] * m + ((c[k + 1][2] - c[k][2]) \div SegLen(c, k)) * u>>

\* _resample_polyline: the points (numerators over ResampleCount - 1) and the
\* length; a curve of fewer than 2 points or of length 0 is returned as it is,
\* with length 0
resample_polyline(c) ==
    LET m == ResampleCount - 1
        total_len == CumLen(c, Len(c))
    IN IF Len(c) < 2 \/ total_len = 0
         THEN [pts |-> [i \in 1..Len(c) |-> PScale(m, c[i])], len |-> 0]
         ELSE [pts |-> [j \in 1..ResampleCount |-> Interp(c, total_len * (j - 1))],
               len |-> total_len]

RECURSIVE Pow10(_)
Pow10(k) == IF k = 0 THEN 1 ELSE 10 * Pow10(k - 1)
\* the first k decimal digits of r / den (r < den), as an integer
RECURSIVE Digits(_, _, _)
Digits(r, den, k) ==
    IF k = 0 THEN 0
    ELSE ((10 * r) \div den) * Pow10(k - 1) + Digits((10 * r) % den, den, k - 1)
\* sqrt(num / den) in 1/DevScale
ScaledSqrt(num, den) ==
    LET g == GCD(num, den)
        a == IF g = 0 THEN num ELSE num \div g
        b == IF g = 0 THEN den ELSE den \div g
    IN ISqrt((a \div b) * DevScale * DevScale + Digits(a % b, b, 2 * DevDigits))

\* mutant: only the horizontal difference is measured
DeviationAlongX(a, b) ==
    ScaledSqrt((a[1] - b[1]) * (a[1] - b[1]), (ResampleCount - 1) * (ResampleCount - 1))

\* np.hypot(xr_p - xr_d, yr_p - yr_d) for one pair of resampled points
Deviation(a, b) ==
    ScaledSqrt(Norm2(PSub(a, b)), (ResampleCount - 1) * (ResampleCount - 1))

\* the sum of a long array, by halves
RECURSIVE SumBetween(_, _, _)
SumBetween(xs, lo, hi) ==
    IF lo > hi THEN 0
    ELSE IF lo = hi THEN xs[lo]
    ELSE SumBetween(xs, lo, (lo + hi) \div 2) + SumBetween(xs, (lo + hi) \div 2 + 1, hi)
SumOf(xs) == SumBetween(xs, 1, Len(xs))

\* np.max
RECURSIVE MaxBetween(_, _, _)
MaxBetween(xs, lo, hi) ==
    IF lo = hi THEN xs[lo]
    ELSE Max(MaxBetween(xs, lo, (lo + hi) \div 2), MaxBetween(xs, (lo + hi) \div 2 + 1, hi))
MaxOf(ds) == MaxBetween(ds, 1, Len(ds))
\* mutant: the first compared point is reported as the worst
ArgFirst(ds, mx) == 0

\* np.argmax: the first index (from 0) that holds the maximum mx
ArgMax(ds, mx) == (CHOOSE j \in 1..Len(ds) : ds[j] = mx /\ \A h \in 1..(j - 1) : ds[h] # mx) - 1
\* np.mean(np.abs(deviations))
MeanOfDevs(ds) == SumOf(ds) \div Len(ds)
\* np.sqrt(np.mean(deviations ** 2)), from the squared differences sq
RmsOf(sq) ==
    ScaledSqrt(SumOf(sq), Len(sq) * (ResampleCount - 1) * (ResampleCount - 1))
\* the k-th smallest deviation (k from 1): the least v in lo..hi that at least
\* k deviations do not exceed
CountUpTo(ds, v) == Cardinality({j \in 1..Len(ds) : ds[j] <= v})
RECURSIVE KthBetween(_, _, _, _)
KthBetween(ds, k, lo, hi) ==
    IF lo >= hi THEN lo
    ELSE IF CountUpTo(ds, (lo + hi) \div 2) >= k
           THEN KthBetween(ds, k, lo, (lo + hi) \div 2)
           ELSE KthBetween(ds, k, (lo + hi) \div 2 + 1, hi)
\* np.percentile(deviations, 95): linear interpolation between the order
\* statistics around position 0.95 * (n - 1); mx is the largest deviation
PercentileOf(ds, mx) ==
    LET pos == Percentile * (Len(ds) - 1)
        i   == pos \div 100
        f   == pos % 100
    IN \* lo + f * (hi - lo)
       LET lo == KthBetween(ds, i + 1, 0, mx)
           hi == KthBetween(ds, i + 2, lo, mx)
       IN (lo * 100 + f * (hi - lo)) \div 100
\* round(v, 2), in hundredths
Round2(v) == (v * 100 + DevScale \div 2) \div DevScale

\* metrics = None
NoMetrics == [none |-> TRUE]

\* line 700: n = min(len(xr_p), len(xr_d))
CommonLen(rp, rd) == IF Len(rp.pts) <= Len(rd.pts) THEN Len(rp.pts) ELSE Len(rd.pts)
\* line 704: deviations, and their squares as numerators over (ResampleCount - 1)^2
DevsOf(rp, rd, n) == [j \in 1..n |-> Deviation(rp.pts[j], rd.pts[j])]
SquaresOf(rp, rd, n) == [j \in 1..n |-> Norm2(PSub(rp.pts[j], rd.pts[j]))]
\* round(float(xr[idx]), 1) for both coordinates of a resampled point, in tenths
Round1(pt) ==
    LET m == ResampleCount - 1
    IN <<(20 * pt[1] + m) \div (2 * m), (20 * pt[2] + m) \div (2 * m)>>
\* lines 706-722: the rounded statistics and the worst point
StatsOf(ds, sq, mx, rp, rd) ==
    LET idx_max == ArgMax(ds, mx)
    IN [max_deviation_px  |-> Round2(mx),
        mean_deviation_px |-> Round2(MeanOfDevs(ds)),
        rms_deviation_px  |-> Round2(RmsOf(sq)),
        p95_deviation_px  |-> Round2(PercentileOf(ds, mx)),
        total_profile_length_px |-> 100 * Max(rp.len, rd.len),
        perfect_xy |-> Round1(rp.pts[idx_max + 1]),
        dented_xy |-> Round1(rd.pts[idx_max + 1]),
        index |-> idx_max]

\* mutant: one compared point is enough
MetricsWantedFromOne(n) == n >= 1

\* line 701: if n > 1
MetricsWanted(n) == n > 1

\* lines 575-590: the points of a curve handed to the metrics block; without a
\* contour the fallback reads the pixels of a blank skeleton image
CurvePoints(c) == IF c.found THEN c.n ELSE 0

\* lines 681-693: a curve of fewer than 2 points is returned as it is, any
\* other is resampled to n = 300 points
ResampledSize(n) == IF n < 2 THEN n ELSE ResampleCount

\* lines 696-701, 753: whether the returned tuple carries a metrics record
\* (TRUE) or None (FALSE)
ReportedMetrics(cp, cd) ==
    LET np == ResampledSize(CurvePoints(cp))
        nd == ResampledSize(CurvePoints(cd))
    IN MetricsWanted(IF np < nd THEN np ELSE nd)

NoCurve == [pts |-> <<>>, len |-> 0]

MOff ==
    /\ poly_p = <<>> /\ poly_d = <<>> /\ res_p = NoCurve /\ res_d = NoCurve
    /\ metrics = NoMetrics /\ mpc = "off"

MInit ==
    /\ poly_p \in MetricCurves
    /\ poly_d \in {Shifted(c, o) : c \in MetricCurves, o \in Offsets}
    /\ res_p = NoCurve /\ res_d = NoCurve
    /\ metrics = NoMetrics /\ mpc = "resample"

\* lines 696-699: metrics = None, and the two calls of _resample_polyline
Resample ==
    /\ UNCHANGED <<ovars, rvars, ivars, evars, svars, wvars, hvars>>
    /\ mpc = "resample"
    /\ \E rp \in {resample_polyline(poly_p)} : res_p' = rp
    /\ \E rd \in {resample_polyline(poly_d)} : res_d' = rd
    /\ metrics' = NoMetrics
    /\ mpc' = "deviations"
    /\ UNCHANGED <<poly_p, poly_d>>

\* lines 700-722: the statistics of the deviations
Deviations ==
    /\ UNCHANGED <<ovars, rvars, ivars, evars, svars, wvars, hvars>>
    /\ mpc = "deviations"
    /\ \E n \in {CommonLen(res_p, res_d)} :
         IF MetricsWanted(n)
           THEN \E ds \in {DevsOf(res_p, res_d, n)} :
                \E sq \in {SquaresOf(res_p, res_d, n)} :
                \E mx \in {MaxOf(ds)} :
                   metrics' = StatsOf(ds, sq, mx, res_p, res_d)
           ELSE metrics' = NoMetrics
    /\ mpc' = "done"
    /\ UNCHANGED <<poly_p, poly_d, res_p, res_d>>

\* ------------------------------------------------------------------------
\* Part VIII : the web front ends, server.py (index) and server/app.py (process)
\* ------------------------------------------------------------------------
\* last second the clock reaches
MaxClock == 1
\* the requests in flight
Reqs == {1, 2}
\* the front ends
Handlers == {"server", "app"}
\* filenames a client sends with an upload; "" is a form field without a file
Filenames == {"", "a.jpg", "b.jpg", "../a.jpg"}

\* image_processing.py line 753: the length of the tuple analyze_dent returns
ReturnedLen == 3
\* server.py line 50: result_path, processing_time = analyze_dent(...)
UnpackTargets == 2
\* server/app.py line 709: len(result) < 2
MinResultLen == 2

\* werkzeug secure_filename of a whole client filename: path separators become
\* blanks, blanks become "_", and leading dots and underscores are stripped
SecureName(name) == IF name = "../a.jpg" THEN "a.jpg" ELSE name

\* secure_filename of "dented_<timestamp>_" + filename, after that prefix:
\* nothing is stripped in the middle of a name
SecureTail(name) == IF name = "../a.jpg" THEN ".._a.jpg" ELSE name

NoPath == [root |-> "none", prefix |-> "", stamp |-> 0, name |-> ""]
NoFile == [owner |-> 0, kind |-> "none"]
NoContent == [owner |-> 0, kind |-> "none", perfect |-> NoFile, dented |-> NoFile]

\* server.py lines 36-39 and server/app.py lines 670-674: where an upload of
\* the given kind ("dented" or "perfect") is stored
UploadPath(h, kind, st, name) ==
    IF h = "server"
      THEN [root |-> "uploads", prefix |-> kind, stamp |-> st, name |-> SecureTail(name)]
      ELSE [root |-> "tracs_uploads", prefix |-> "", stamp |-> st, name |-> SecureName(name)]

\* server.py lines 44-45 and server/app.py line 678: where the plot is written
OutputPath(h, st) ==
    IF h = "server"
      THEN [root |-> "static/results", prefix |-> "profile_comparison", stamp |-> st,
            name |-> ".jpg"]
      ELSE [root |-> "tracs_uploads", prefix |-> "", stamp |-> st,
            name |-> "profile_comparison.jpg"]

\* server.py line 35: timestamp = str(int(time.time()));
\* server/app.py line 669: uid = uuid.uuid4().hex, a fresh value per request
StampOf(h, r, now) == IF h = "server" THEN now ELSE MaxClock + r

\* the bytes of an upload of request r
Upload(r, kind) == [owner |-> r, kind |-> kind, perfect |-> NoFile, dented |-> NoFile]
\* which file a content is
IdOf(c) == [owner |-> c.owner, kind |-> c.kind]
\* the plot request r writes from the two images it read
Comparison(r, ld) ==
    [owner |-> r, kind |-> "result", perfect |-> ld.perfect, dented |-> ld.dented]

\* file.save(path), fig.savefig(path): create or overwrite
WriteFile(files, path, content) ==
    [q \in DOMAIN files \cup {path} |-> IF q = path THEN content ELSE files[q]]

\* server.py lines 49-64: the two-name unpacking of what analyze_dent returned
\* raises TypeError for None and ValueError for a tuple of another length; both
\* are caught by "except Exception", as is an exception of analyze_dent
ServerResponse(res) ==
    IF res = "raised" THEN "processing_failed"
    ELSE IF res = "None" THEN "processing_failed"
    ELSE IF ReturnedLen # UnpackTargets THEN "processing_failed"
    ELSE "page"

\* server/app.py lines 704-716
AppResponse(res) ==
    IF res = "raised" THEN "error_500"
    ELSE IF res = "None" \/ ReturnedLen < MinResultLen THEN "error_400"
    ELSE "json"

ResponseOf(h, res) == IF h = "server" THEN ServerResponse(res) ELSE AppResponse(res)

HOff ==
    /\ handler = "server" /\ clock = 0 /\ fs = <<>>
    /\ hpc = [r \in Reqs |-> "off"]
    /\ stamp = [r \in Reqs |-> 0]
    /\ dented_path = [r \in Reqs |-> NoPath]
    /\ perfect_path = [r \in Reqs |-> NoPath]
    /\ out_path = [r \in Reqs |-> NoPath]
    /\ img_read = [r \in Reqs |-> [perfect |-> NoFile, dented |-> NoFile]]
    /\ returned = [r \in Reqs |-> "running"]
    /\ response = [r \in Reqs |-> "none"]
    /\ shown = [r \in Reqs |-> NoContent]

HInit ==
    /\ handler \in Handlers /\ clock = 0 /\ fs = <<>>
    /\ hpc = [r \in Reqs |-> "request"]
    /\ stamp = [r \in Reqs |-> 0]
    /\ dented_path = [r \in Reqs |-> NoPath]
    /\ perfect_path = [r \in Reqs |-> NoPath]
    /\ out_path = [r \in Reqs |-> NoPath]
    /\ img_read = [r \in Reqs |-> [perfect |-> NoFile, dented |-> NoFile]]
    /\ returned = [r \in Reqs |-> "running"]
    /\ response = [r \in Reqs |-> "none"]
    /\ shown = [r \in Reqs |-> NoContent]

\* a second passes
Tick ==
    /\ UNCHANGED <<ovars, rvars, ivars, evars, svars, wvars, mvars>>
    /\ clock < MaxClock
    /\ clock' = clock + 1
    /\ UNCHANGED <<handler, fs, hpc, stamp, dented_path, perfect_path, out_path,
                   img_read, returned, response, shown>>

\* server.py lines 27-39, 44-45 and server/app.py lines 664-674, 678: the
\* check that both files came, the timestamp or uid, and the three paths
Receive(r) ==
    /\ UNCHANGED <<ovars, rvars, ivars, evars, svars, wvars, mvars>>
    /\ hpc[r] = "request"
    /\ \E dn \in Filenames, pn \in Filenames :
         IF dn = "" \/ pn = ""
           THEN /\ response' = [response EXCEPT ![r] = "both_required"]
                /\ hpc' = [hpc EXCEPT ![r] = "responded"]
                /\ UNCHANGED <<stamp, dented_path, perfect_path, out_path>>
           ELSE \E st \in {StampOf(handler, r, clock)} :
                /\ stamp' = [stamp EXCEPT ![r] = st]
                /\ dented_path' = [dented_path EXCEPT ![r] = UploadPath(handler, "dented", st, dn)]
                /\ perfect_path' = [perfect_path EXCEPT ![r] = UploadPath(handler, "perfect", st, pn)]
                /\ out_path' = [out_path EXCEPT ![r] = OutputPath(handler, st)]
                /\ hpc' = [hpc EXCEPT ![r] = "save"]
                /\ UNCHANGED response
    /\ UNCHANGED <<handler, clock, fs, img_read, returned, shown>>

\* server.py lines 40-41 and server/app.py lines 675-676: the dented upload is
\* saved first, the perfect upload second
Save(r) ==
    /\ UNCHANGED <<ovars, rvars, ivars, evars, svars, wvars, mvars>>
    /\ hpc[r] = "save"
    /\ fs' = WriteFile(WriteFile(fs, dented_path[r], Upload(r, "dented")),
                       perfect_path[r], Upload(r, "perfect"))
    /\ hpc' = [hpc EXCEPT ![r] = "analyze"]
    /\ UNCHANGED <<handler, clock, stamp, dented_path, perfect_path, out_path,
                   img_read, returned, response, shown>>

\* image_processing.py lines 383-391: analyze_dent reads the two paths it was
\* given; it returns None when an image is not readable
Load(r) ==
    /\ UNCHANGED <<ovars, rvars, ivars, evars, svars, wvars, mvars>>
    /\ hpc[r] = "analyze"
    /\ img_read' = [img_read EXCEPT ![r] = [perfect |-> IdOf(fs[perfect_path[r]]),
                                        dented |-> IdOf(fs[dented_path[r]])]]
    /\ \E readable \in BOOLEAN :
         IF readable
           THEN hpc' = [hpc EXCEPT ![r] = "plot"] /\ UNCHANGED returned
           ELSE /\ hpc' = [hpc EXCEPT ![r] = "respond"]
                /\ returned' = [returned EXCEPT ![r] = "None"]
    /\ UNCHANGED <<handler, clock, fs, stamp, dented_path, perfect_path, out_path,
                   response, shown>>

\* image_processing.py lines 592-674, 753: the plot is written to output_path
\* and the tuple is returned; or a step of the pipeline raises
Plot(r) ==
    /\ UNCHANGED <<ovars, rvars, ivars, evars, svars, wvars, mvars>>
    /\ hpc[r] = "plot"
    /\ \/ /\ fs' = WriteFile(fs, out_path[r], Comparison(r, img_read[r]))
          /\ returned' = [returned EXCEPT ![r] = "tuple"]
       \/ /\ returned' = [returned EXCEPT ![r] = "raised"]
          /\ UNCHANGED fs
    /\ hpc' = [hpc EXCEPT ![r] = "respond"]
    /\ UNCHANGED <<handler, clock, stamp, dented_path, perfect_path, out_path,
                   img_read, response, shown>>

\* server.py lines 49-64 and server/app.py lines 704-716: the answer
Respond(r) ==
    /\ UNCHANGED <<ovars, rvars, ivars, evars, svars, wvars, mvars>>
    /\ hpc[r] = "respond"
    /\ response' = [response EXCEPT ![r] = ResponseOf(handler, returned[r])]
    /\ hpc' = [hpc EXCEPT ![r] = "responded"]
    /\ UNCHANGED <<handler, clock, fs, stamp, dented_path, perfect_path, out_path,
                   img_read, returned, shown>>

\* server.py line 61 (the static result_url) and server/app.py lines 718-723
\* (/result/<uid>): the client fetches the image its answer points to
Fetch(r) ==
    /\ UNCHANGED <<ovars, rvars, ivars, evars, svars, wvars, mvars>>
    /\ hpc[r] = "responded"
    /\ response[r] \in {"page", "json"}
    /\ shown' = [shown EXCEPT ![r] = fs[out_path[r]]]
    /\ hpc' = [hpc EXCEPT ![r] = "fetched"]
    /\ UNCHANGED <<handler, clock, fs, stamp, dented_path, perfect_path, out_path,
                   img_read, returned, response>>

XOff == IOff /\ EOff /\ SOff /\ WOff /\ MOff /\ HOff

vars == <<ovars, rvars, xvars>>

\* analyze_dent, one invocation
Init == OInit /\ ROff /\ XOff
Next ==
    \/ LoadImages
    \/ ExtractContours
    \/ Prepare
    \/ SelectMode
    \/ RansacStage
    \/ IcpGuard
    \/ IcpStage
    \/ InnerFallback
    \/ OuterFallback
    \/ Finish
Spec == Init /\ [][Next]_vars

\* ransac_global_fit, one invocation
RansacInit == OOff /\ RInit({1}) /\ XOff
RansacNext ==
    \/ RansacEntry(1)
    \/ RansacIterate(1)
    \/ RansacReturn(1)
SpecRansac == RansacInit /\ [][RansacNext]_vars

\* ransac_global_fit, two invocations on the same arguments
TwinInit == OOff /\ RInit(Runs) /\ XOff
\* the second invocation starts when the first has ended
SecondEntry == rpc[1] \in {"returned", "raised"} /\ RansacEntry(2)
SecondIterate == RansacIterate(2)
SecondReturn == RansacReturn(2)
TwinNext ==
    \/ RansacEntry(1)
    \/ RansacIterate(1)
    \/ RansacReturn(1)
    \/ SecondEntry
    \/ SecondIterate
    \/ SecondReturn
SpecTwin == TwinInit /\ [][TwinNext]_vars

\* icp_rigid, one invocation
IcpInit == OOff /\ ROff /\ IInit /\ EOff /\ SOff /\ WOff /\ MOff /\ HOff
IcpNext ==
    \/ IcpEntry
    \/ IcpIterate
    \/ IcpReturn
SpecIcp == IcpInit /\ [][IcpNext]_vars
\* icp_rigid run to its end.  The loop is a for loop, so a call that has not
\* returned takes its next step: this is WF_vars(IcpNext) with
\* ENABLED <<IcpNext>>_vars written out as ipc # "returned"
IcpProgress == []<>(ipc = "returned") \/ []<><<IcpNext>>_vars
SpecIcpFair == SpecIcp /\ IcpProgress

\* an estimator called on clouds related by a similarity
EstimatorInit == OOff /\ ROff /\ IOff /\ EInit /\ SOff /\ WOff /\ MOff /\ HOff
EstimatorNext ==
    \/ MakeDst
    \/ CallEstimator
SpecEstimator == EstimatorInit /\ [][EstimatorNext]_vars

\* ransac_global_fit on a scene with gross outliers
RobustInit == OOff /\ SInit /\ IOff /\ EOff /\ WOff /\ MOff /\ HOff
RobustNext ==
    \/ RansacEntry(1)
    \/ RansacIterate(1)
    \/ RansacReturn(1)
SpecRobust == RobustInit /\ [][RobustNext]_vars

\* the piecewise fallback on concrete curves
PiecewiseInit == OOff /\ ROff /\ IOff /\ EOff /\ SOff /\ WInit /\ MOff /\ HOff
PiecewiseNext ==
    \/ PwSegment
    \/ PwShifts
    \/ PwWarp
SpecPiecewise == PiecewiseInit /\ [][PiecewiseNext]_vars

\* the deviation metrics of two curves
MetricsInit == OOff /\ ROff /\ IOff /\ EOff /\ SOff /\ WOff /\ MInit /\ HOff
MetricsNext ==
    \/ Resample
    \/ Deviations
SpecMetrics == MetricsInit /\ [][MetricsNext]_vars

\* two requests served side by side by one front end
HandlerInit == OOff /\ ROff /\ IOff /\ EOff /\ SOff /\ WOff /\ MOff /\ HInit
HandlerNext ==
    \/ Tick
    \/ \E r \in Reqs : Receive(r)
    \/ \E r \in Reqs : Save(r)
    \/ \E r \in Reqs : Load(r)
    \/ \E r \in Reqs : Plot(r)
    \/ \E r \in Reqs : Respond(r)
    \/ \E r \in Reqs : Fetch(r)
SpecHandler == HandlerInit /\ [][HandlerNext]_vars

\* ------------------------------------------------------------------------
\* Properties of analyze_dent (checked under Spec)
\* ------------------------------------------------------------------------
InTrace(stage) == \E i \in DOMAIN trace : trace[i] = stage
AfterAlignment == pc \in {"visualize", "done"}
BothContours == contour_p.found /\ contour_d.found
\* ransac_global_fit returned a result to analyze_dent
HasRansacResult == InTrace("ransac") /\ raised # "ransac"
\* the acceptance criterion as the specification words it
MeetsCriterion ==
    n_inliers >= 20 /\ err_ransac < (IF inlier_px > 20 THEN inlier_px ELSE 20) * ErrScale

\* C1: with align_mode 'ransac', once the mode selector is reached RANSAC is
\* the first stage attempted; ICP is attempted if and only if the RANSAC
\* result was rejected; an accepted RANSAC result is the transform applied
\* and ICP is not run.
C1_RansacFirstIcpIffRejected ==
    align_mode = "ransac" =>
        /\ (trace # <<>> /\ raised # "prep") => trace[1] = "ransac"
        /\ (pc \in {"icp_guard", "icp", "except_inner"} \/ (AfterAlignment /\ BothContours))
             /\ raised # "prep" => InTrace("ransac")
        /\ InTrace("icp") => (HasRansacResult /\ ~MeetsCriterion)
        /\ (HasRansacResult /\ ~MeetsCriterion /\ (AfterAlignment \/ pc = "except_inner"))
             => InTrace("icp")
        /\ (HasRansacResult /\ MeetsCriterion)
             => (~InTrace("icp") /\ final_warped_contour_d = "ransac")

C1_Witness ==
    /\ align_mode = "ransac" /\ pc = "done"
    /\ trace = <<"ransac">> /\ final_warped_contour_d = "ransac"

\* C2: a RANSAC result is accepted exactly when its inlier count is at least
\* 20 and its mean inlier error is strictly below max(20, inlier_px).
C2_AcceptIffCriterion ==
    (HasRansacResult /\ pc # "ransac") =>
        /\ ransac_used <=> MeetsCriterion
        /\ (final_warped_contour_d = "ransac") <=> MeetsCriterion

\* a found model (30 or more inliers) rejected for its error alone
C2_Witness ==
    /\ pc = "icp_guard" /\ HasRansacResult
    /\ n_inliers >= 30 /\ err_ransac = inlier_px * ErrScale /\ ~ransac_used

\* C3: with 'icp' RANSAC is never attempted and ICP is the first stage; with
\* 'piecewise' neither RANSAC nor ICP is attempted and only the piecewise
\* warp can change the sample curve.
C3_ModeSelectsStages ==
    /\ align_mode = "icp" =>
         /\ ~InTrace("ransac")
         /\ (AfterAlignment /\ BothContours /\ raised # "prep") => trace[1] = "icp"
    /\ align_mode = "piecewise" =>
         /\ ~InTrace("ransac") /\ ~InTrace("icp")
         /\ final_warped_contour_d \in {"unset", "original", "piecewise"}
         /\ (AfterAlignment /\ BothContours) => trace = <<"piecewise">>

C3_Witness ==
    /\ align_mode = "piecewise" /\ pc = "done"
    /\ trace = <<"piecewise">> /\ final_warped_contour_d = "piecewise"

\* C4: an exception raised in the RANSAC stage or in the ICP stage is caught
\* inside analyze_dent, the piecewise fallback runs next, and analyze_dent
\* goes on to return its result tuple; the exception never leaves it.
C4_StageExceptionCaught ==
    /\ pc # "propagated"
    /\ raised \in {"ransac", "icp"} =>
         /\ pc \in {"except_inner", "visualize", "done"}
         /\ pc = "except_inner" => trace[Len(trace)] = raised
         /\ AfterAlignment =>
              /\ Len(trace) >= 2
              /\ trace[Len(trace)] = "piecewise"
              /\ trace[Len(trace) - 1] = raised
         /\ pc = "done" => result = "tuple"
         /\ pc # "done" => ENABLED Next

C4_Witness ==
    /\ raised = "icp" /\ pc = "done" /\ result = "tuple"
    /\ final_warped_contour_d = "piecewise"

\* C5 as stated: a failure raised in the RANSAC stage leads to ICP being
\* attempted next, and only a failure in ICP leads to the piecewise fallback.
C5_Original ==
    /\ (raised = "ransac" /\ AfterAlignment) => InTrace("icp")
    /\ (InTrace("piecewise") /\ align_mode # "piecewise" /\ raised # "prep")
         => raised = "icp"

\* C5 amended: a failure raised in the RANSAC stage or in the ICP stage leads
\* directly to the piecewise fallback; after a failure raised in the RANSAC
\* stage ICP is not attempted.
C5_FailureGoesToPiecewise ==
    /\ raised = "ransac" =>
         /\ ~InTrace("icp")
         /\ AfterAlignment => trace = <<"ransac", "piecewise">>
    /\ (raised = "icp" /\ AfterAlignment) =>
         /\ trace[Len(trace)] = "piecewise"
         /\ trace[Len(trace) - 1] = "icp"
    /\ (InTrace("piecewise") /\ align_mode # "piecewise" /\ raised # "prep")
         => raised \in {"ransac", "icp"}

C5_Witness ==
    /\ raised = "ransac" /\ pc = "done" /\ trace = <<"ransac", "piecewise">>

\* C6 as stated: when RANSAC is rejected or skipped and ICP stops with fewer
\* than 2 correspondences, so that it estimated no transform, the piecewise
\* warp is applied instead of the sample curve under the identity transform.
C6_PiecewiseWhenIcpFindsNothing ==
    (InTrace("icp") /\ T_icp = "identity" /\ AfterAlignment /\ raised = "none")
        => (InTrace("piecewise") /\ final_warped_contour_d # "icp")

\* ------------------------------------------------------------------------
\* Properties of ransac_global_fit (checked under SpecRansac and SpecTwin)
\* ------------------------------------------------------------------------
\* C7: ransac_global_fit never raises, and when src or dst has fewer than 2
\* points, or no candidate of the n_iter iterations reached min_inliers, it
\* returns the identity, an error of +infinity and an all-false mask as long
\* as src.
C7_FailureResult ==
    /\ rpc[1] # "raised"
    /\ (rpc[1] = "returned" /\ (Len(src) < 2 \/ Len(dst) < 2 \/ seen[1] = {})) =>
         /\ ret[1].T = Eye3
         /\ ret[1].err = Infinity
         /\ ret[1].inliers = [i \in 1..Len(src) |-> FALSE]

\* all iterations ran on usable clouds and none reached min_inliers
C7_Witness ==
    /\ rpc[1] = "returned" /\ Len(src) >= 2 /\ Len(dst) >= 2
    /\ n_iter >= 2 /\ iter[1] = n_iter /\ seen[1] = {}

\* C8: after any number of iterations the tracked best model has the largest
\* inlier count among the candidates seen so far that reached min_inliers,
\* and the smallest mean inlier residual among those with that count.
C8_BestIsMaxCountMinErr ==
    rpc[1] = "loop" =>
        LET bn == CountTrue(best_inliers[1])
        IN IF seen[1] = {}
             THEN bn = 0 /\ best_err[1] = Infinity /\ best_T[1] = Eye3
             ELSE /\ [n |-> bn, err |-> best_err[1]] \in seen[1]
                  /\ \A c \in seen[1] : c.n < bn \/ (c.n = bn /\ best_err[1] <= c.err)

\* two candidates with the best count and different residuals were seen
C8_Witness ==
    /\ rpc[1] = "loop"
    /\ \E c \in seen[1], d \in seen[1] :
         /\ c.n = d.n /\ c.err < d.err
         /\ c.n = CountTrue(best_inliers[1]) /\ c.err = best_err[1]

\* C9: the correspondence table is the nearest-neighbour table of the initial,
\* untransformed src, computed before the loop, and no iteration changes it.
C9_TableComputedOnce ==
    /\ [](rpc[1] = "loop" =>
            corr_dst[1] = [i \in 1..Len(src) |-> dst[Nearest(src[i], dst)]])
    /\ [][rpc[1] = "loop" => corr_dst'[1] = corr_dst[1]]_vars

\* a model was found under which re-querying dst would give another table
C9_Witness ==
    /\ rpc[1] = "loop" /\ iter[1] >= 1 /\ seen[1] # {}
    /\ Requery(corr_dst[1], best_T[1], src, dst) # corr_dst[1]

\* C10 as stated: two invocations with identical inputs and parameters return
\* the identical transform, error and inlier mask.
C10_SameInputsSameResult ==
    (rpc[1] = "returned" /\ rpc[2] = "returned") => ret[1] = ret[2]

\* ------------------------------------------------------------------------
\* Properties of icp_rigid (checked under SpecIcp and SpecIcpFair)
\* ------------------------------------------------------------------------
\* T maps src[i] to the i-th point of cloud, for every i, and cloud is as long as src
MapsSrcOnto(T, cloud) ==
    /\ Len(cloud.pts) = Len(icp_src)
    /\ \A i \in 1..Len(icp_src) :
         PScale(cloud.den, ApplyNum(T, icp_src[i])) = PScale(T.den, cloud.pts[i])

\* the correspondences that pass the outlier_threshold test in the current state
Surviving ==
    CountTrue(IcpInlierMask(current_src, icp_dst, IcpNearestIdx(current_src, icp_dst),
                            outlier_threshold))

\* C11: at the end of every loop pass and at return (early termination
\* included) the accumulated transform maps every original src point, inlier
\* or rejected outlier, to the point of the current cloud at the same index,
\* and the returned cloud has as many points as src, in the same order.
C11_TotalMapsSrcToCurrent ==
    /\ ipc \in {"loop", "exit"} => MapsSrcOnto(total_T, current_src)
    /\ ipc = "returned" => MapsSrcOnto(icp_ret.T, icp_ret.cloud)

\* two steps were applied, the first with a rejected outlier, and the
\* accumulated transform turns the cloud
C11_Witness ==
    /\ ipc = "returned" /\ Len(icp_log) >= 2
    /\ icp_log[1].n >= 2 /\ icp_log[1].n < Len(icp_src) /\ icp_log[2].n >= 2
    /\ icp_ret.T.m12 # 0
    /\ icp_ret.cloud # Cloud(icp_src)

C13_StopsAtConvergenceOrCap ==
    /\ [](/\ icp_i <= max_iter
          /\ Len(icp_log) = icp_i
          /\ \A k \in 1..Len(icp_log) :
               /\ icp_log[k].prev = (IF k = 1 THEN Infinity ELSE icp_log[k - 1].err)
               /\ (icp_log[k].n >= 2 /\ Abs(icp_log[k].prev - icp_log[k].err) < tol)
                    => (k = Len(icp_log) /\ ipc \in {"exit", "returned"}))
    /\ [][(ipc \in {"exit", "returned"}) => (icp_log' = icp_log)]_vars
    /\ <>(ipc = "returned")

\* the loop stopped on convergence with passes to spare
C13_Witness ==
    /\ ipc = "returned" /\ Len(icp_log) = 2 /\ max_iter > 2
    /\ icp_log[2].n >= 2 /\ icp_log[2].err # icp_log[1].err
    /\ Abs(icp_log[2].prev - icp_log[2].err) < tol

\* ------------------------------------------------------------------------
\* The Transform invariant (checked under SpecRansac)
\* ------------------------------------------------------------------------
\* the 2x2 block of T is scale * R with R a proper rotation and scale > 0:
\* it has the shape (a -b; b a), which excludes reflections, and is not zero
ProperSimilarity(T) ==
    /\ T.den > 0
    /\ T.m11 = T.m22 /\ T.m12 = 0 - T.m21
    /\ T.m11 * T.m11 + T.m21 * T.m21 > 0

\* C14 as stated: every transform ransac_global_fit returns has a 2x2 block
\* scale * R with R a proper rotation and scale strictly greater than 0,
\* also when two sampled src points have the same dst point as correspondence.
C14_TransformInvariant ==
    rpc[1] = "returned" => ProperSimilarity(ret[1].T)

\* ------------------------------------------------------------------------
\* Exact recovery (checked under SpecEstimator)
\* ------------------------------------------------------------------------
\* the call is one the claim speaks of: similarity mode, or rigid mode with scale 1
RecoveryCase == est_similarity \/ Norm2(est_a) = 1
\* R, t and scale of the similarity applied were returned, with residual 0
Recovered ==
    /\ est_T = [m11 |-> est_a[1], m12 |-> 0 - est_a[2], m21 |-> est_a[2], m22 |-> est_a[1],
                tx |-> est_t[1], ty |-> est_t[2], den |-> 1]
    /\ est_err = 0
TwoDistinct(ps) == \E i, j \in 1..Len(ps) : ps[i] # ps[j]

\* C15 as stated: for every src point set and every proper similarity, dst =
\* scale * R * src + t makes the similarity estimator return that R, t and
\* scale (the rigid estimator that R and t when scale = 1), with residual 0.
C15_Original ==
    (epc = "done" /\ RecoveryCase) => Recovered

\* C15 amended: the same for every src point set that holds at least two
\* distinct points.
C15_ExactRecovery ==
    (epc = "done" /\ RecoveryCase /\ TwoDistinct(est_src)) => Recovered

\* three points not on a line, turned by 45 degrees, scaled by sqrt(2) and moved
C15_Witness ==
    /\ epc = "done" /\ est_similarity /\ est_a = <<1, 1>> /\ est_t # <<0, 0>>
    /\ est_src = <<<<0, 0>>, <<1, 0>>, <<0, 2>>>>
    /\ Recovered

\* ------------------------------------------------------------------------
\* Robustness of ransac_global_fit (checked under SpecRobust)
\* ------------------------------------------------------------------------
TrueInliers == (1..Len(src)) \ displaced
KeptInliers(mask) == {i \in TrueInliers : mask[i]}

\* C16: on N points that satisfy a known transform plus M < N gross outliers,
\* ransac_global_fit returns a model, not the failure result, whose inlier
\* mask holds at least 90% of the true inliers and none of the gross outliers.
C16_RansacRobust ==
    rpc[1] = "returned" =>
        /\ ret[1] # Failure(Len(src))
        /\ \A i \in displaced : ~ret[1].inliers[i]
        /\ 10 * Cardinality(KeptInliers(ret[1].inliers)) >= 9 * Cardinality(TrueInliers)

\* a run in which the claim's outcome is obtained
C16_GoodRun ==
    /\ rpc[1] = "returned"
    /\ ret[1] # Failure(Len(src))
    /\ \A i \in displaced : ~ret[1].inliers[i]
    /\ KeptInliers(ret[1].inliers) = TrueInliers

\* ------------------------------------------------------------------------
\* The piecewise fallback (checked under SpecPiecewise)
\* ------------------------------------------------------------------------
\* floor(N / 4), stated without the division
FloorQuarter(N) == CHOOSE q \in 0..N : 4 * q <= N /\ N < 4 * (q + 1)
\* round(0.25 * N): the nearest integer, a tie going to the even one
RoundQuarter(N) ==
    LET q == FloorQuarter(N)
        r == N - 4 * q
    IN IF r < 2 THEN q ELSE IF r > 2 THEN q + 1 ELSE IF q % 2 = 0 THEN q ELSE q + 1
\* the anchor length that follows from a first length k0
Shrunk(k0, N) == IF 2 * k0 > N THEN CHOOSE k \in 0..N : 3 * k <= N /\ N < 3 * (k + 1) ELSE k0
Segmented == wpc \in {"shifts", "warp", "failed", "done"}
\* both anchors of c have length k, and are None exactly when k = 0
AnchorsOfLength(top, bottom, c, k) ==
    /\ Len(top) = k /\ Len(bottom) = k
    /\ top = SubSeq(c, 1, k) /\ bottom = SubSeq(c, Len(c) - k + 1, Len(c))

\* C17 as stated: for every curve length N >= 0 the anchor length is
\* k = max(10, round(0.25 N)), replaced by N // 3 when 2k > N, and
\* segmentation fails exactly when the resulting k is 0.
C17_Original ==
    Segmented =>
        /\ AnchorsOfLength(top_p, bottom_p, curve_p,
                           Shrunk(Max(10, RoundQuarter(Len(curve_p))), Len(curve_p)))
        /\ AnchorsOfLength(top_d, bottom_d, curve_d,
                           Shrunk(Max(10, RoundQuarter(Len(curve_d))), Len(curve_d)))

\* C17 amended: the same with k = max(10, floor(0.25 N)); the fallback gives
\* up exactly when an anchor length is 0.
C17_AnchorLength ==
    /\ Segmented =>
        /\ AnchorsOfLength(top_p, bottom_p, curve_p,
                           Shrunk(Max(10, FloorQuarter(Len(curve_p))), Len(curve_p)))
        /\ AnchorsOfLength(top_d, bottom_d, curve_d,
                           Shrunk(Max(10, FloorQuarter(Len(curve_d))), Len(curve_d)))
    /\ wpc = "failed" <=> (Segmented /\ wpc # "shifts" /\ (top_p = <<>> \/ top_d = <<>>))

\* a sample curve of 43 points, where round and floor part, was segmented
C17_Witness ==
    /\ Segmented /\ Len(curve_d) = 43 /\ Len(top_d) = 10 /\ Len(bottom_d) = 10
    /\ bottom_d[1] = curve_d[34]

\* the exact offset w * dtop + (1 - w) * dbottom of the point at index i
ExactMove(i, N) == Offset(i, N, delta_top, delta_bottom)
MovedExactly(j) ==
    LET o == ExactMove(j - 1, Len(curve_d))
    IN /\ (warped_points[j][1] - curve_d[j][1]) * o.den = o.x
       /\ (warped_points[j][2] - curve_d[j][2]) * o.den = o.y

\* C18: in the piecewise warp of a sample curve of N points, the point at
\* index i is moved by exactly w * dtop + (1 - w) * dbottom with
\* w = (N - 1 - i) / (N - 1): the first by dtop, the last by dbottom, and the
\* output has the same number of points in the same order.
C18_WarpExact ==
    wpc = "done" =>
        /\ Len(warped_points) = Len(curve_d)
        /\ \A j \in 1..Len(curve_d) : MovedExactly(j)

\* arithmetic mean of the points of an anchor
MeanOf(a) ==
    Frac(SumSeq([i \in 1..Len(a) |-> a[i][1]]), SumSeq([i \in 1..Len(a) |-> a[i][2]]), Len(a))

\* C19: dtop (dbottom) is the arithmetic mean of the reference curve's top
\* (bottom) anchor points minus that of the sample curve's, and a translation
\* defaults to (0,0) only when an anchor holds no points.
C19_ShiftIsMeanDifference ==
    wpc \in {"warp", "done"} =>
        /\ delta_top = FracSub(MeanOf(top_p), MeanOf(top_d))
        /\ delta_bottom = FracSub(MeanOf(bottom_p), MeanOf(bottom_d))

\* ------------------------------------------------------------------------
\* The deviation metrics (checked under SpecMetrics)
\* ------------------------------------------------------------------------
\* poly_d is poly_p moved by o
DiffersBy(o) == poly_d = Shifted(poly_p, o)
\* sqrt(dx^2 + dy^2), rounded to hundredths
OffsetNorm(o) == Round2(ISqrt(DevScale * DevScale * Norm2(o)))
AllEqualTo(v) ==
    /\ metrics.max_deviation_px = v /\ metrics.mean_deviation_px = v
    /\ metrics.rms_deviation_px = v /\ metrics.p95_deviation_px = v

\* C20: for two curves that differ by a constant offset (dx, dy), the
\* identical case (0, 0) included, the deviation analysis yields max, mean,
\* RMS and 95th-percentile deviation all equal to sqrt(dx^2 + dy^2); it
\* yields them whenever the curves hold at least two points.
C20_ConstantOffsetMetrics ==
    \A o \in Offsets :
        (mpc = "done" /\ DiffersBy(o)) =>
            /\ Len(poly_p) >= 2 => metrics # NoMetrics
            /\ metrics # NoMetrics => AllEqualTo(OffsetNorm(o))

\* a bent curve of three points against its copy moved by (3, 4): 5.00 px
C20_Witness ==
    /\ mpc = "done" /\ DiffersBy(<<3, 4>>)
    /\ poly_p = <<<<0, 0>>, <<1, 0>>, <<1, 1>>>>
    /\ Len(res_p.pts) = ResampleCount
    /\ metrics # NoMetrics /\ AllEqualTo(500)

\* C21: if either curve given to the deviation analysis is empty, metrics is
\* None and nothing is raised (the block ends); metrics are produced only when
\* the two resampled curves share a common length of at least 2.
C21_NoMetricsWithoutPoints ==
    mpc = "done" =>
        /\ (poly_p = <<>> \/ poly_d = <<>>) => metrics = NoMetrics
        /\ metrics # NoMetrics => CommonLen(res_p, res_d) >= 2

\* an empty reference against a sample of three points
C21_Witness ==
    /\ mpc = "done" /\ poly_p = <<>> /\ Len(poly_d) = 3
    /\ Len(res_d.pts) = ResampleCount /\ metrics = NoMetrics

\* the deviation of the compared pair at index i (from 0)
DeviationAtIndex(i) == Deviation(res_p.pts[i + 1], res_d.pts[i + 1])

\* C22: whenever metrics are produced over n compared points, the worst-point
\* index i satisfies 0 <= i < n, d_i is the maximum deviation, and the
\* reported reference and sample coordinates are the resampled points at i.
C22_WorstPoint ==
    (mpc = "done" /\ metrics # NoMetrics) =>
        /\ 0 <= metrics.index /\ metrics.index < CommonLen(res_p, res_d)
        /\ \A j \in 0..(CommonLen(res_p, res_d) - 1) :
               DeviationAtIndex(j) <= DeviationAtIndex(metrics.index)
        /\ metrics.max_deviation_px = Round2(DeviationAtIndex(metrics.index))
        /\ metrics.perfect_xy = Round1(res_p.pts[metrics.index + 1])
        /\ metrics.dented_xy = Round1(res_d.pts[metrics.index + 1])

\* curves of different shape whose largest deviation is not at the first point
C22_Witness ==
    /\ mpc = "done" /\ metrics # NoMetrics
    /\ metrics.index > 0
    /\ DeviationAtIndex(0) < DeviationAtIndex(metrics.index)
    /\ metrics.perfect_xy # metrics.dented_xy

\* C24: on total failure -- an image that cannot be loaded, or no contour
\* extracted from the reference or from the sample image -- analyze_dent ends
\* without having raised and without having run any alignment stage (RANSAC,
\* ICP or the piecewise warp); the sample curve is left as extracted, and
\* the caller receives either None (no result) or a tuple whose metrics
\* entry is None (no profile compared).
C24_TotalFailure ==
    (pc = "done" /\ (result = "None" \/ ~contour_p.found \/ ~contour_d.found))
        => /\ raised = "none"
           /\ trace = <<>>
           /\ final_warped_contour_d \in {"unset", "original"}
           /\ \/ result = "None"
              \/ result = "tuple" /\ ~ReportedMetrics(contour_p, contour_d)

\* analyze_dent returned after the reference contour was found and the sample
\* contour was not
C24_Witness ==
    /\ pc = "done" /\ result = "tuple"
    /\ contour_p.found /\ ~contour_d.found
    /\ trace = <<>>

\* C25: whenever ransac_global_fit returns a mask with at least one true
\* entry, the mask has at least min_inliers true entries, entry i is true
\* exactly when the returned transform maps src[i] to within
\* inlier_threshold of its correspondence in the table built at entry, and
\* the returned error is the mean of the distances of the true entries,
\* which is at most inlier_threshold.
C25_ReturnedTripleConsistent ==
    \A r \in Runs :
        (rpc[r] = "returned" /\ CountTrue(ret[r].inliers) >= 1)
            => LET corr == CorrTable(src, dst)
               IN /\ CountTrue(ret[r].inliers) >= min_inliers
                  /\ ret[r].inliers = InlierMask(ret[r].T, src, corr, inlier_threshold)
                  /\ ret[r].err = MeanInlierErr(ret[r].T, src, corr, ret[r].inliers)
                  /\ ret[r].err <= inlier_threshold * ErrScale

\* a run returned a model whose mask has true and false entries
C25_Witness ==
    \E r \in Runs :
        /\ rpc[r] = "returned"
        /\ \E i, j \in 1..Len(ret[r].inliers) : ret[r].inliers[i] /\ ~ret[r].inliers[j]

\* C26: every RANSAC result analyze_dent receives that contains a model has
\* at least 30 inliers, so the inlier-count half (>= 20) of the acceptance
\* test never rejects a found model: a RANSAC result is rejected only when
\* it contains no model (no candidate reached 30 inliers) or when its mean
\* inlier error is not below max(20, inlier_px).
C26_CountTestNeverRejects ==
    (HasRansacResult /\ pc # "ransac") =>
        /\ n_inliers >= 1 => n_inliers >= RansacMinInliers
        /\ ~ransac_used =>
              \/ n_inliers = 0
              \/ err_ransac >= Max(AcceptErrFloor, inlier_px) * ErrScale

\* a model with exactly 30 inliers was accepted and applied
C26_Witness ==
    /\ pc = "done" /\ HasRansacResult
    /\ n_inliers = RansacMinInliers
    /\ ransac_used /\ final_warped_contour_d = "ransac"

\* the anchors cut from curve c are both missing (segmentation failed), or
\* are the first k and the last k points of c with 1 <= k and 2k <= N, and
\* have no point of the curve in common
AnchorsDisjoint(top, bottom, c) ==
    IF top = <<>> THEN bottom = <<>>
    ELSE LET k == Len(top)
             N == Len(c)
         IN /\ 1 <= k /\ 2 * k <= N
            /\ top = SubSeq(c, 1, k)
            /\ bottom = SubSeq(c, N - k + 1, N)
            /\ \A i, j \in 1..k : top[i] # bottom[j]

\* C27: segment_profile succeeds exactly for contours of at least 3 points,
\* and when it succeeds the anchor length k satisfies 1 <= k and 2k <= N, so
\* the top anchor (first k points) and the bottom anchor (last k points)
\* share no point.
C27_AnchorsNeverOverlap ==
    Segmented =>
        /\ top_p # <<>> <=> Len(curve_p) >= 3
        /\ top_d # <<>> <=> Len(curve_d) >= 3
        /\ AnchorsDisjoint(top_p, bottom_p, curve_p)
        /\ AnchorsDisjoint(top_d, bottom_d, curve_d)

\* a reference curve of 20 points cut into two anchors of 10 that meet
\* without overlapping, next to a sample curve of 3 points with anchors of 1
C27_Witness ==
    /\ Segmented
    /\ Len(curve_p) = 20 /\ Len(top_p) = 10 /\ Len(bottom_p) = 10
    /\ Len(curve_d) = 3 /\ Len(top_d) = 1

\* what holds of the final sample curve once the alignment block is over
OneStageDetermines ==
    (AfterAlignment /\ result # "None") =>
        /\ final_warped_contour_d \in {"original", "ransac", "icp", "piecewise"}
        /\ final_warped_contour_d = "ransac" =>
              ransac_used /\ ~InTrace("icp") /\ ~InTrace("piecewise")
        /\ final_warped_contour_d = "icp" =>
              ~ransac_used /\ InTrace("icp") /\ ~InTrace("piecewise")
        /\ final_warped_contour_d = "piecewise" =>
              ~ransac_used /\ raised # "none" /\ InTrace("piecewise")
        /\ (raised # "none"
              /\ (segment_profile(contour_p) = 0 \/ segment_profile(contour_d) = 0))
             => final_warped_contour_d = "original"
        /\ pc = "done" => result = "tuple"
\* a stage that has set the final sample curve
StageHasSet == final_warped_contour_d \in {"ransac", "icp", "piecewise"}

\* C28: in one invocation of analyze_dent at most one of RANSAC, ICP and the
\* piecewise warp sets the final sample curve -- once a stage has set it, no
\* later step changes it, and the stage that set it is the only one that
\* produced a result -- and when a stage failed and anchor segmentation is
\* impossible the final sample curve is the contour as extracted, with which
\* analyze_dent still goes on to the plot and the deviation metrics and
\* returns its tuple.
C28_AtMostOneStageDetermines ==
    /\ []OneStageDetermines
    /\ [][StageHasSet => final_warped_contour_d' = final_warped_contour_d]_vars

\* RANSAC was rejected, ICP raised, the anchors could not be cut: the sample
\* curve is returned as extracted
C28_Witness ==
    /\ pc = "done" /\ result = "tuple"
    /\ trace = <<"ransac", "icp", "piecewise">>
    /\ final_warped_contour_d = "original"

\* ------------------------------------------------------------------------
\* Properties of the web front ends (checked under SpecHandler)
\* ------------------------------------------------------------------------
\* request r has passed the check that both files came
Accepted(r) == out_path[r] # NoPath
\* analyze_dent of request r has read its two images
HasRead(r) == hpc[r] \in {"plot", "respond", "responded", "fetched"} /\ Accepted(r)
\* the paths request r writes and reads
PathsOf(r) == {dented_path[r], perfect_path[r], out_path[r]}

\* C23: two requests served side by side share no file: the paths of one
\* request are not paths of the other, the two images analyze_dent reads for
\* a request are uploads of that request, and the image a client is shown is
\* the comparison its own request wrote from its own uploads.
C23_RequestsShareNoFiles ==
    \A r \in Reqs :
        /\ \A q \in Reqs \ {r} :
              (Accepted(r) /\ Accepted(q)) => PathsOf(r) \cap PathsOf(q) = {}
        /\ HasRead(r) => img_read[r].perfect.owner = r /\ img_read[r].dented.owner = r
        /\ shown[r] # NoContent =>
              /\ shown[r].owner = r
              /\ shown[r].perfect.owner = r /\ shown[r].dented.owner = r

\* C29: in a /process request of server/app.py the dented and the perfect
\* upload are stored at two distinct paths whatever the two client filenames
\* are, and analyze_dent reads the dented upload as the sample and the
\* perfect upload as the reference.
C29_UploadsStoredApart ==
    handler = "app" =>
        \A r \in Reqs :
            /\ Accepted(r) => dented_path[r] # perfect_path[r]
            /\ HasRead(r) =>
                  /\ img_read[r].dented = [owner |-> r, kind |-> "dented"]
                  /\ img_read[r].perfect = [owner |-> r, kind |-> "perfect"]

\* C30: in server.py, a request whose analyze_dent returned its tuple is
\* answered with the result page, and the 'Processing failed' redirect
\* answers only a request whose analyze_dent raised or returned None.
C30_SuccessRendersPage ==
    handler = "server" =>
        \A r \in Reqs :
            hpc[r] \in {"responded", "fetched"} =>
                /\ returned[r] = "tuple" => response[r] = "page"
                /\ response[r] = "processing_failed" => returned[r] \in {"raised", "None"}

====
